---- MODULE Spec2Model ----
(***************************************************************************)
(* Kingnstar VCS: the repository orchestrator (kingnstar/repo.py), the     *)
(* object store (kingnstar/objects.py) and the password helpers            *)
(* (kingnstar/security.py) as a state machine over the on-disk state:      *)
(* HEAD, refs/heads/<branch>, index, objects/ and the working files.       *)
(*                                                                         *)
(* Every Repository method is one action (the program is single-threaded   *)
(* and synchronous).  A behaviour is a session of calls.  `result` holds   *)
(* the arguments and the returned dict of the session's last call and is   *)
(* NoResult while the session goes on: every call can be the last one, so  *)
(* every step (state, call, returned dict, next state) of the program is   *)
(* a step of the model, and the returned dicts do not multiply the states  *)
(* from which the session continues.                                       *)
(*                                                                         *)
(* Modelling conventions                                                   *)
(*  - SHA-1 is modelled as a collision-free digest: `sha1` lists the       *)
(*    contents digested so far, and the digest of a content is its place   *)
(*    in that list (the same content always gets the same digest).  The    *)
(*    SHA-256 of a password is the tagged password.                        *)
(*  - A file's bytes are a sequence of tokens; "CR", "LF" and "BAD" (a     *)
(*    byte that is not valid UTF-8) are the tokens Python's text-mode      *)
(*    reading treats specially, every other token is an ordinary char.     *)
(*  - The repository is opened as Repository(".") from its own working    *)
(*    directory (what the CLI does), on a POSIX system.                    *)
(*  - datetime.now() is modelled by the counter `now`, which advances on   *)
(*    every Commit object built (microsecond clock, file I/O in between).  *)
(***************************************************************************)
EXTENDS Integers, Sequences, FiniteSets, TLC

VARIABLES
    initialized,   \* the .kingnstar directory exists
    head,          \* content of .kingnstar/HEAD
    refs,          \* refs/heads: branch file name -> file content
    index,         \* .kingnstar/index: the "staged" list
    objects,       \* objects/: hash -> stored JSON content
    sha1,          \* the contents digested so far; a digest is an index
    work,          \* working directory: path -> bytes, or Absent
    now,           \* wall clock, read by Commit.__init__
    committed,     \* history: commit hash -> the working files commit read
    stagedAt,      \* history: path -> the bytes the file had when add staged it
    procs,         \* locals of the invocations that run at the same time
    result,        \* arguments and returned dict of the session's last call
    pre,           \* history: the on-disk state that call started from
    walk           \* locals of a get_commit_history call inside its while loop

vars == <<initialized, head, refs, index, objects, sha1, work, now, committed, stagedAt,
          result, pre, walk, procs>>

----------------------------------------------------------------------------
(* Program constants *)

KINGNSTAR_DIR == ".kingnstar"
DEFAULT_BRANCH == "master"
MASTER_PASSWORD == "Kingnstar@1604"
RefPrefix == "ref: refs/heads/"
HashLen == 40      \* length of a SHA-1 hex digest
ShortLen == 8      \* minimum length of a commit_id that checkout resolves
ShardLen == 2                             \* hash[:2]: the shard directory of an object

(* Bounds of the model *)

MaxCommits == 2    \* Commit objects built in one behaviour
MaxLogCommits == 3 \* the same, in the sessions that read the history
MaxStored == 3     \* objects of a damaged object store

NoHash == 0                               \* None / "" where a hash is expected

(* Input alphabets *)

Paths == {"a.txt", "b.txt"}
HeadPath == ".kingnstar/HEAD"            \* KINGNSTAR_DIR / HEAD_FILE
PathOrder == <<HeadPath, "a.txt", "b.txt">>  \* lexicographic order, for sorted()
FileBytes == {<<"x">>, <<"y">>}
Messages == {<<"m1">>}
PyNone == "None"                          \* Python's None as an argument
Passwords == {"pw1", "pw2", MASTER_PASSWORD, PyNone}
NewPasswords == {"pw1"}                   \* passwords given to create_branch
DirName == ".."                           \* heads_dir / ".." is the refs directory
BranchNames == {DEFAULT_BRANCH, "feature"}
RefLens == {ShortLen - 1, ShortLen, HashLen}  \* lengths of a typed commit_id
MissingHash == NoHash - 1                    \* the digest of no stored object
Patterns == Paths \cup {"*.txt"}

Absent == <<"absent">>                    \* no file at this path
NoObject == <<>>                          \* None where a parsed object is expected
NoPasswordHash == <<>>                    \* no "password_hash" in a ref file
NoFile == <<"nofile">>                    \* a metadata file that does not exist
NoResult == [op |-> "none"]
NoWalk == [pc |-> "idle"]                 \* no get_commit_history call is running
NoProcs == <<>>                           \* no invocation runs beside the session's
NoShortHash == <<>>                       \* None where a short hash is expected
NoTimestamp == 0 - 1                      \* "" where a timestamp is expected
EmptyFun == <<>>

----------------------------------------------------------------------------
(* kingnstar/security.py *)

\* a password stored as it was typed
hash_password_plain(password) == <<"plain", password>>

hash_password(password) == <<"sha256", password>>

verify_password(password, stored_hash) == hash_password(password) = stored_hash

\* an override credential that is never recognised
is_master_password_never(password) == FALSE

is_master_password(password) == password = MASTER_PASSWORD

----------------------------------------------------------------------------
(* kingnstar/objects.py *)

\* hashlib.sha1(json.dumps(content, sort_keys=True)).hexdigest(), given the
\* contents digested so far
compute_hash(table, content) ==
    IF \E i \in DOMAIN table : table[i] = content
    THEN CHOOSE i \in DOMAIN table : table[i] = content
    ELSE Len(table) + 1

\* the contents digested once `content` has been digested too
Digested(table, content) ==
    IF \E i \in DOMAIN table : table[i] = content THEN table
    ELSE Append(table, content)

\* open(file_path, 'r', encoding='utf-8', errors='ignore').read():
\* universal newlines turn CR LF and a lone CR into LF, undecodable bytes
\* are dropped.
RECURSIVE ReadText(_)
ReadText(bytes) ==
    IF bytes = <<>> THEN <<>>
    ELSE IF Head(bytes) = "CR"
         THEN IF Len(bytes) > 1 /\ bytes[2] = "LF"
              THEN <<"LF">> \o ReadText(SubSeq(bytes, 3, Len(bytes)))
              ELSE <<"LF">> \o ReadText(Tail(bytes))
         ELSE IF Head(bytes) = "BAD"
              THEN ReadText(Tail(bytes))
              ELSE <<Head(bytes)>> \o ReadText(Tail(bytes))

\* Path.write_text(text) on POSIX: "LF" is written as os.linesep = "LF",
\* the text is encoded as UTF-8.
WriteText(text) == text

\* Blob(file_path).content for a file that exists and can be opened
Blob(file_path, bytes) ==
    [type |-> "blob", path |-> file_path,
     hash |-> <<"sha1", ReadText(bytes)>>, content |-> ReadText(bytes)]

Tree(entries) == [type |-> "tree", entries |-> entries]

Commit(tree_hash, parent_hash, message, timestamp) ==
    [type |-> "commit", tree |-> tree_hash, parent |-> parent_hash,
     message |-> message, timestamp |-> timestamp]

\* a write that leaves the new object alone in the store
write_to_disk_alone(store, obj_hash, content) == (obj_hash :> content)

\* KingnstarObject.write_to_disk: objects/<hash[:2]>/<hash[2:]> := content
write_to_disk(store, obj_hash, content) == (obj_hash :> content) @@ store

\* read_object: None when the file does not exist
read_object(obj_hash, store) ==
    IF obj_hash \in DOMAIN store THEN store[obj_hash] ELSE NoObject

\* obj.get("tree"), obj.get("parent"): None when the key is missing
GetHash(obj, key) == IF key \in DOMAIN obj THEN obj[key] ELSE NoHash

\* obj.get("entries", []), obj.get("content", "")
GetList(obj, key) == IF key \in DOMAIN obj THEN obj[key] ELSE <<>>

----------------------------------------------------------------------------
(* Ref files *)

PlainRef(commit_hash) ==
    [json |-> FALSE, commit |-> commit_hash, password_hash |-> NoPasswordHash]

JsonRef(commit_hash, pwhash) ==
    [json |-> TRUE, commit |-> commit_hash, password_hash |-> pwhash]

HeadRef(branch) == <<RefPrefix, branch>>

\* an existence test that never finds the file
RefPathExists_never(name) == FALSE

\* (heads_dir / name).exists(): a branch file, or a directory
RefPathExists(name) == name \in DOMAIN refs \/ name = DirName

get_current_branch ==
    IF ~initialized THEN PyNone
    ELSE IF head # NoFile /\ head[1] = RefPrefix THEN head[2] ELSE PyNone

\* get_current_commit raises when heads_dir / branch is a directory: both
\* read_text() calls fail
CurrentCommitRaises(branch) == branch = DirName

\* a pointer that is always read as empty
get_current_commit_none(branch) == NoHash

\* not branch: None and "" are both falsy
get_current_commit(branch) ==
    IF branch = PyNone \/ branch = "" THEN NoHash
    ELSE IF branch \notin DOMAIN refs THEN NoHash
    ELSE refs[branch].commit

\* write_text on heads_dir / branch raises when the path is a directory
CanWriteRef(branch) == branch # DirName

\* a pointer write that is lost
WritePlainPointer_skip(rs, branch, commit_hash) == rs

\* branch_ref.write_text(commit_hash)
WritePlainPointer(rs, branch, commit_hash) ==
    (branch :> PlainRef(commit_hash)) @@ rs

\* a pointer update that is skipped
WritePointerKeepingRecord_skip(rs, branch, commit_hash) == rs

\* try: json.loads; data["commit"] = h; write json   except: write_text(h)
WritePointerKeepingRecord(rs, branch, commit_hash) ==
    IF branch \in DOMAIN rs /\ rs[branch].json
    THEN [rs EXCEPT ![branch].commit = commit_hash]
    ELSE (branch :> PlainRef(commit_hash)) @@ rs

----------------------------------------------------------------------------
(* Helpers on sequences *)

Range(s) == {s[i] : i \in DOMAIN s}

\* sorted(list(S)) for a set of paths
SortedPaths(S) == SelectSeq(PathOrder, LAMBDA p : p \in S)

IsFile(p) == p \in Paths /\ work[p] # Absent

----------------------------------------------------------------------------
Init ==
    /\ initialized = FALSE
    /\ head = NoFile
    /\ refs = EmptyFun
    /\ index = NoFile
    /\ objects = EmptyFun
    /\ sha1 = <<>>
    /\ work = [p \in Paths |-> Absent]
    /\ now = 0
    /\ committed = EmptyFun
    /\ stagedAt = EmptyFun
    /\ procs = NoProcs
    /\ result = NoResult
    /\ pre = NoResult
    /\ walk = NoWalk

\* the on-disk state a call starts from
Disk ==
    [initialized |-> initialized, head |-> head, refs |-> refs, index |-> index,
     objects |-> objects, work |-> work]

\* the call returns r after changing the disk; r is recorded when the call
\* is the session's last
Return(r) ==
    /\ \/ result' = r /\ pre' = Disk
       \/ result' = NoResult /\ pre' = pre
    /\ walk' = walk

\* the call returns r and has changed nothing
ReturnUnchanged(r) ==
    /\ result' = r
    /\ pre' = Disk
    /\ UNCHANGED <<initialized, head, refs, index, objects, sha1, work, now,
                   committed, stagedAt,
                   walk, procs>>

\* the session goes on: the last call has not been made, and no call is
\* in progress
Running == result = NoResult /\ walk = NoWalk

\* a missing repository that is answered with success
NotARepo_success(op, args) ==
    [op |-> op, args |-> args, success |-> TRUE,
     message |-> "Not a Kingnstar repository"]

NotARepo(op, args) ==
    [op |-> op, args |-> args, success |-> FALSE,
     message |-> "Not a Kingnstar repository"]

\* an initialize that writes the metadata files again on every call
Initialize_overwrite ==
    /\ Running
    /\ initialized' = TRUE
    /\ refs' = (DEFAULT_BRANCH :> PlainRef(NoHash))
    /\ head' = HeadRef(DEFAULT_BRANCH)
    /\ index' = <<>>
    /\ Return([op |-> "initialize", args |-> <<>>, success |-> TRUE,
               message |-> "Initialized empty Kingnstar repository",
               idempotent |-> initialized])
    /\ UNCHANGED <<objects, sha1, work, now, committed, stagedAt, procs>>

(* Repository.initialize *)
Initialize ==
    /\ Running
    /\ IF initialized
       THEN ReturnUnchanged([op |-> "initialize", args |-> <<>>, success |-> TRUE,
                       message |-> "Repository already initialized",
                       idempotent |-> TRUE])
       ELSE /\ initialized' = TRUE
            /\ refs' = (DEFAULT_BRANCH :> PlainRef(NoHash))
            /\ head' = HeadRef(DEFAULT_BRANCH)
            /\ index' = <<>>
            /\ Return([op |-> "initialize", args |-> <<>>, success |-> TRUE,
                       message |-> "Initialized empty Kingnstar repository",
                       idempotent |-> FALSE])
            /\ UNCHANGED <<objects, sha1, work, now, committed, stagedAt, procs>>

----------------------------------------------------------------------------
(* Staging *)

\* glob.glob(pattern): the entries of the working directory the pattern
\* names, the metadata directory and the HEAD file in it included
Globbed(pattern) ==
    IF pattern = KINGNSTAR_DIR THEN {KINGNSTAR_DIR}
    ELSE IF pattern = HeadPath THEN (IF head # NoFile THEN {HeadPath} ELSE {})
    ELSE IF pattern = "*.txt" THEN {p \in Paths : IsFile(p)}
    ELSE {p \in Paths : p = pattern /\ IsFile(p)}

\* a test that takes no path for a metadata path
InMetadata_never(file_path) == FALSE

\* KINGNSTAR_DIR in file_path
InMetadata(file_path) == file_path \in {KINGNSTAR_DIR, HeadPath}

\* full_path.is_file() for an entry that glob listed
is_file(file_path) == file_path = HeadPath \/ IsFile(file_path)

\* glob.glob(pattern), then the KINGNSTAR_DIR and is_file() filters
Matched(pattern) ==
    {p \in Globbed(pattern) : ~InMetadata(p) /\ is_file(p)}

\* the orders in which a directory scan may list a set of paths
Orderings(S) ==
    {s \in [1..Cardinality(S) -> S] : \A i, j \in DOMAIN s : s[i] = s[j] => i = j}

RECURSIVE AddedLists(_)
AddedLists(patterns) ==
    IF patterns = <<>> THEN {<<>>}
    ELSE {a \o b : a \in Orderings(Matched(Head(patterns))),
                   b \in AddedLists(Tail(patterns))}

\* a staged list that repeats the paths added again
StagedAfter_append(staged, added) == staged \o added

\* staged = set(index["staged"]); staged.add(rel_path); sorted(list(staged))
StagedAfter(staged, added) == SortedPaths(Range(staged) \cup Range(added))

\* history: the bytes add finds in the file it stages (the HEAD file holds
\* the text of head)
ReadBytes(file_path) == IF file_path = HeadPath THEN <<head>> ELSE work[file_path]

\* history: what is remembered of the paths that stay in the staged list
StillStaged(staged) ==
    [p \in DOMAIN stagedAt \cap Range(staged) |-> stagedAt[p]]

(* Repository.add_files *)
AddFiles(patterns) ==
    /\ Running
    /\ IF ~initialized
       THEN ReturnUnchanged(NotARepo("add", patterns))
       ELSE IF \E i \in DOMAIN patterns : Globbed(patterns[i]) = {}
       THEN ReturnUnchanged([op |-> "add", args |-> patterns, success |-> FALSE,
                       message |-> "No files matched pattern"])
       ELSE \E added \in AddedLists(patterns) :
            /\ index' = StagedAfter(index, added)
            /\ Return([op |-> "add", args |-> patterns, success |-> TRUE,
                       message |-> "Staged file(s)", files |-> added])
            /\ stagedAt' = [p \in Range(added) |-> ReadBytes(p)] @@ StillStaged(index')
            /\ UNCHANGED <<initialized, head, refs, objects, sha1, work, now, committed, procs>>

\* a staged list that falls back on every working file when it is empty
get_staged_files_all ==
    IF index = NoFile \/ index = <<>> THEN SortedPaths({p \in Paths : IsFile(p)})
    ELSE index

\* get_staged_files: [] when the index cannot be read
get_staged_files == IF index = NoFile THEN <<>> ELSE index

\* an index that is left as it is
ClearedIndex_stale == index

\* index_file.write_text(json.dumps({"staged": []}))
ClearedIndex == <<>>

----------------------------------------------------------------------------
(* Commit *)

\* an object that is hashed and never written
StoreObject_unwritten(table, store, content) ==
    [table |-> Digested(table, content), store |-> store,
     hash |-> compute_hash(table, content)]

\* obj = Kind(...); obj.write_to_disk(objects_dir): the digest table, the
\* store and the returned hash
StoreObject(table, store, content) ==
    LET obj_hash == compute_hash(table, content)
    IN  [table |-> Digested(table, content),
         store |-> write_to_disk(store, obj_hash, content),
         hash |-> obj_hash]

\* a loop that makes an entry for every staged path, its file missing or not
RECURSIVE BlobLoop_missing(_, _, _, _)
BlobLoop_missing(table, store, blob_hashes, staged) ==
    IF staged = <<>>
    THEN [table |-> table, store |-> store, blob_hashes |-> blob_hashes]
    ELSE LET w == StoreObject(table, store,
                              Blob(Head(staged),
                                   IF IsFile(Head(staged)) THEN work[Head(staged)]
                                   ELSE <<>>))
         IN  BlobLoop_missing(w.table, w.store,
                              Append(blob_hashes,
                                     [path |-> Head(staged), blob_hash |-> w.hash]),
                              Tail(staged))

\* the loop over staged_files: a blob is stored for every staged path that
\* exists, and its {path, blob_hash} appended to blob_hashes
RECURSIVE BlobLoop(_, _, _, _)
BlobLoop(table, store, blob_hashes, staged) ==
    IF staged = <<>>
    THEN [table |-> table, store |-> store, blob_hashes |-> blob_hashes]
    ELSE IF IsFile(Head(staged))
         THEN LET w == StoreObject(table, store, Blob(Head(staged), work[Head(staged)]))
              IN  BlobLoop(w.table, w.store,
                           Append(blob_hashes,
                                  [path |-> Head(staged), blob_hash |-> w.hash]),
                           Tail(staged))
         ELSE BlobLoop(table, store, blob_hashes, Tail(staged))

\* a commit that forgets its parent
CommitParent_none(current_branch) == NoHash

\* parent_hash handed to Commit(...) by Repository.commit
CommitParent(current_branch) == get_current_commit(current_branch)

(* Repository.commit, while fewer than `limit` Commit objects were built *)
CommitWithin(message, limit) ==
    /\ Running
    /\ IF ~initialized
       THEN ReturnUnchanged(NotARepo("commit", message))
       ELSE IF get_staged_files = <<>>
       THEN ReturnUnchanged([op |-> "commit", args |-> message, success |-> FALSE,
                             message |-> "No files staged for commit"])
       ELSE LET staged_files == get_staged_files
                blobs == BlobLoop(sha1, objects, <<>>, staged_files)
                tree == StoreObject(blobs.table, blobs.store, Tree(blobs.blob_hashes))
                current_branch == get_current_branch
                parent_hash == CommitParent(current_branch)
                commit == StoreObject(tree.table, tree.store,
                                      Commit(tree.hash, parent_hash, message, now))
            IN  IF CurrentCommitRaises(current_branch)
                THEN \* the blobs and the tree are on disk already
                     /\ sha1' = tree.table
                     /\ objects' = tree.store
                     /\ Return([op |-> "commit", args |-> message,
                                success |-> FALSE,
                                message |-> "Error creating commit"])
                     /\ UNCHANGED <<initialized, head, refs, index, work, now,
                                    committed, stagedAt, procs>>
                ELSE /\ now < limit
                     /\ now' = now + 1
                     /\ sha1' = commit.table
                     /\ objects' = commit.store
                     /\ committed' = (commit.hash :>
                                        [p \in {e.path : e \in Range(blobs.blob_hashes)}
                                           |-> work[p]]) @@ committed
                     /\ refs' = WritePlainPointer(refs, current_branch, commit.hash)
                     /\ index' = ClearedIndex
                     /\ Return([op |-> "commit", args |-> message,
                                success |-> TRUE, message |-> "Created commit",
                                commit_hash |-> commit.hash])
                     /\ stagedAt' = StillStaged(index')
                     /\ UNCHANGED <<initialized, head, work, procs>>

CommitFiles(message) == CommitWithin(message, MaxCommits)

----------------------------------------------------------------------------
(* Branches *)

(* Repository.create_branch *)
CreateBranch(branch_name, password) ==
    /\ Running
    /\ IF ~initialized
       THEN ReturnUnchanged(NotARepo("create_branch", <<branch_name, password>>))
       ELSE IF RefPathExists(branch_name)
       THEN ReturnUnchanged([op |-> "create_branch", args |-> <<branch_name, password>>,
                       success |-> FALSE, message |-> "Branch already exists"])
       ELSE IF CurrentCommitRaises(get_current_branch) \/ password = PyNone
            \* get_current_commit raises; hash_password: None.encode() raises
       THEN ReturnUnchanged([op |-> "create_branch", args |-> <<branch_name, password>>,
                       success |-> FALSE, message |-> "Error creating branch"])
       ELSE LET current_branch == get_current_branch
                parent_commit == get_current_commit(current_branch)
            IN  /\ refs' = (branch_name :> JsonRef(parent_commit, hash_password(password)))
                           @@ refs
                /\ Return([op |-> "create_branch", args |-> <<branch_name, password>>,
                           success |-> TRUE,
                           message |-> "Created branch with password protection"])
                /\ UNCHANGED <<initialized, head, index, objects, sha1, work, now,
                               committed, stagedAt, procs>>

\* stored_password_hash read by switch_branch: None when the file is not
\* JSON (or cannot be read at all, for the heads directory)
StoredPasswordHash(branch_name) ==
    IF branch_name \in DOMAIN refs /\ refs[branch_name].json
    THEN refs[branch_name].password_hash
    ELSE NoPasswordHash

\* the password test of switch_branch: "ok", "invalid", or "raise" when
\* verify_password calls None.encode()
PasswordCheck(password, stored_password_hash) ==
    IF stored_password_hash = NoPasswordHash THEN "ok"
    ELSE IF is_master_password(password) THEN "ok"
    ELSE IF password = PyNone THEN "raise"
    ELSE IF verify_password(password, stored_password_hash) THEN "ok"
    ELSE "invalid"

(* Repository.switch_branch *)
SwitchBranch(branch_name, password) ==
    /\ Running
    /\ IF ~initialized
       THEN ReturnUnchanged(NotARepo("switch", <<branch_name, password>>))
       ELSE IF ~RefPathExists(branch_name)
       THEN ReturnUnchanged([op |-> "switch", args |-> <<branch_name, password>>,
                       success |-> FALSE, message |-> "Branch does not exist"])
       ELSE LET check == PasswordCheck(password, StoredPasswordHash(branch_name))
            IN  IF check = "raise"
                THEN ReturnUnchanged([op |-> "switch", args |-> <<branch_name, password>>,
                                success |-> FALSE,
                                message |-> "Error switching branch"])
                ELSE IF check = "invalid"
                THEN ReturnUnchanged([op |-> "switch", args |-> <<branch_name, password>>,
                                success |-> FALSE,
                                message |-> "Invalid password for branch"])
                ELSE /\ head' = HeadRef(branch_name)
                     /\ index' = ClearedIndex
                     /\ Return([op |-> "switch", args |-> <<branch_name, password>>,
                                success |-> TRUE, message |-> "Switched to branch"])
                     /\ stagedAt' = StillStaged(index')
                     /\ UNCHANGED <<initialized, refs, objects, sha1, work, now,
                                    committed, procs>>

----------------------------------------------------------------------------
(* Checkout *)

\* commit_id[:n]: a typed commit_id is the first `len` characters of a digest
CommitId(hash, len) == [hash |-> hash, len |-> len]
Short(commit_id) ==
    CommitId(commit_id.hash, IF commit_id.len < ShortLen THEN commit_id.len ELSE ShortLen)

\* obj_file.name.startswith(search_prefix) within the shard directory:
\* digests of distinct objects are taken to differ in their first ShortLen
\* characters
StartsWith(obj_hash, commit_id) == obj_hash = commit_id.hash

\* read_object(commit_id, objects_dir) for a typed commit_id: the object file
\* is found only under the whole digest
ReadTyped(commit_id, store) ==
    IF commit_id.len = HashLen THEN read_object(commit_id.hash, store) ELSE NoObject

\* the hashes full_hash may be bound to in checkout_commit; {} when it stays None
ResolveCommitId(commit_id, store) ==
    IF commit_id.len >= ShortLen
    THEN IF ReadTyped(commit_id, store) # NoObject
         THEN {commit_id.hash}
         ELSE {k \in DOMAIN store : StartsWith(k, commit_id)}
    ELSE {}

\* a removal that clears the whole working directory
RemoveTracked_all(files, entries) == [p \in DOMAIN files |-> Absent]

\* first loop of checkout_commit: unlink every tree path that exists
RECURSIVE RemoveTracked(_, _)
RemoveTracked(files, entries) ==
    IF entries = <<>> THEN files
    ELSE RemoveTracked([files EXCEPT ![Head(entries).path] = Absent], Tail(entries))

\* second loop of checkout_commit: write each blob's content, when the
\* blob can be read
RECURSIVE RestoreEntries(_, _, _)
RestoreEntries(files, entries, store) ==
    IF entries = <<>> THEN files
    ELSE LET entry == Head(entries)
             blob_obj == read_object(entry.blob_hash, store)
         IN  RestoreEntries(
                 IF blob_obj # NoObject
                 THEN [files EXCEPT ![entry.path] =
                           WriteText(GetList(blob_obj, "content"))]
                 ELSE files,
                 Tail(entries), store)

\* files_restored: the tree paths that existed before the call
FilesRestored(entries) ==
    SelectSeq([i \in DOMAIN entries |-> entries[i].path], IsFile)

(* Repository.checkout_commit *)
CheckoutCommit(commit_id) ==
    /\ Running
    /\ IF ~initialized
       THEN ReturnUnchanged(NotARepo("checkout", commit_id))
       ELSE IF ResolveCommitId(commit_id, objects) = {}
       THEN ReturnUnchanged([op |-> "checkout", args |-> commit_id, success |-> FALSE,
                       message |-> "Commit not found"])
       ELSE \E full_hash \in ResolveCommitId(commit_id, objects) :
            LET commit_obj == read_object(full_hash, objects)
                tree_hash == GetHash(commit_obj, "tree")
                tree_obj == read_object(tree_hash, objects)
                entries == GetList(tree_obj, "entries")
                current_branch == get_current_branch
            IN  IF tree_hash = NoHash      \* read_object(None, ...) raises
                THEN ReturnUnchanged([op |-> "checkout", args |-> commit_id,
                                success |-> FALSE,
                                message |-> "Error checking out commit"])
                ELSE IF tree_obj = NoObject
                THEN ReturnUnchanged([op |-> "checkout", args |-> commit_id,
                                success |-> FALSE,
                                message |-> "Tree object not found for commit"])
                ELSE /\ work' = RestoreEntries(RemoveTracked(work, entries), entries,
                                               objects)
                     /\ IF CanWriteRef(current_branch)
                        THEN /\ refs' = WritePointerKeepingRecord(refs, current_branch,
                                                                  full_hash)
                             /\ index' = ClearedIndex
                             /\ Return([op |-> "checkout", args |-> commit_id,
                                        success |-> TRUE,
                                        message |-> "Checked out to commit",
                                        message_hash |->
                                            CommitId(full_hash, ShortLen),
                                        files_restored |-> FilesRestored(entries)])
                        ELSE /\ Return([op |-> "checkout", args |-> commit_id,
                                        success |-> FALSE,
                                        message |-> "Error checking out commit"])
                             /\ UNCHANGED <<refs, index>>
                     /\ stagedAt' = StillStaged(index')
                     /\ UNCHANGED <<initialized, head, objects, sha1, now,
                                    committed, procs>>

----------------------------------------------------------------------------
(* Pull *)

\* a conflict scan that finds nothing
Conflicts_none(entries) == <<>>

\* the conflicts list of pull_commit: tree paths that are regular files
Conflicts(entries) ==
    SelectSeq([i \in DOMAIN entries |-> entries[i].path], IsFile)

(* Repository.pull_commit_confirm; op is "pull" when reached from pull_commit *)
PullConfirmBody(op, args, commit_id) ==
    /\ Running
    /\ LET commit_obj == ReadTyped(commit_id, objects)
           tree_hash == GetHash(commit_obj, "tree")
           tree_obj == read_object(tree_hash, objects)
           entries == GetList(tree_obj, "entries")
           current_branch == get_current_branch
           parent_commit == get_current_commit(current_branch)
           new_commit == StoreObject(sha1, objects,
                                     Commit(tree_hash, parent_commit,
                                            <<"Pull commit ", Short(commit_id)>>, now))
           new_commit_hash == new_commit.hash
       IN  \* None.get(...) and read_object(None, ...) raise
           \* and so does get_current_commit on a directory
           IF \/ commit_obj = NoObject \/ tree_hash = NoHash \/ tree_obj = NoObject
              \/ CurrentCommitRaises(current_branch)
           THEN ReturnUnchanged([op |-> op, args |-> args, success |-> FALSE,
                           message |-> "Error confirming pull"])
           ELSE \* the loop over entries only creates parent directories
                /\ now < MaxCommits
                /\ now' = now + 1
                /\ sha1' = new_commit.table
                /\ objects' = new_commit.store
                /\ refs' = WritePointerKeepingRecord(refs, current_branch,
                                                     new_commit_hash)
                /\ Return([op |-> op, args |-> args, success |-> TRUE,
                           message |-> "Pulled commit",
                           new_commit |-> CommitId(new_commit_hash, ShortLen),
                           files_updated |->
                               [i \in DOMAIN entries |-> entries[i].path]])
                /\ UNCHANGED <<initialized, head, index, work, committed, stagedAt, procs>>

PullCommitConfirm(commit_id) ==
    PullConfirmBody("pull_confirm", commit_id, commit_id)

(* the body of Repository.pull_commit, which never reads source_branch; *)
(* args is what the result records of the call                         *)
PullSteps(commit_id, args) ==
    /\ Running
    /\ LET commit_obj == ReadTyped(commit_id, objects)
           tree_hash == GetHash(commit_obj, "tree")
           tree_obj == read_object(tree_hash, objects)
           entries == GetList(tree_obj, "entries")
       IN  IF ~initialized
           THEN ReturnUnchanged(NotARepo("pull", args))
           ELSE IF commit_obj = NoObject
           THEN ReturnUnchanged([op |-> "pull", args |-> args, success |-> FALSE,
                           message |-> "Commit not found"])
           ELSE IF tree_hash = NoHash      \* read_object(None, ...) raises
           THEN ReturnUnchanged([op |-> "pull", args |-> args, success |-> FALSE,
                           message |-> "Error pulling commit"])
           ELSE IF tree_obj = NoObject
           THEN ReturnUnchanged([op |-> "pull", args |-> args, success |-> FALSE,
                           message |-> "Tree object not found"])
           ELSE IF Conflicts(entries) # <<>>
           THEN ReturnUnchanged([op |-> "pull", args |-> args, success |-> FALSE,
                           message |-> "File conflicts detected",
                           conflicts |-> Conflicts(entries),
                           requires_confirmation |-> TRUE])
           ELSE PullConfirmBody("pull", args, commit_id)

\* a pull that refuses a source branch that does not exist
PullFrom_checked(source_branch, commit_id, args) ==
    IF initialized /\ source_branch \notin DOMAIN refs
    THEN /\ Running
         /\ ReturnUnchanged([op |-> "pull", args |-> args, success |-> FALSE,
                             message |-> "Branch does not exist"])
    ELSE PullSteps(commit_id, args)

\* pull_commit(source_branch, commit_id): the source branch is a parameter
\* that the body does not use
PullFrom(source_branch, commit_id, args) == PullSteps(commit_id, args)

(* Repository.pull_commit *)
PullCommit(source_branch, commit_id) ==
    PullFrom(source_branch, commit_id, <<source_branch, commit_id>>)

----------------------------------------------------------------------------
(* Log *)

\* a loop without the cycle guard
NotVisited_always(commit_id, visited) == TRUE

\* commit_id not in visited
NotVisited(commit_id, visited) == commit_id \notin visited

\* an entry whose parent is not shortened
HistoryEntry_longparent(commit_id, commit_obj) ==
    [hash |-> CommitId(commit_id, ShortLen),
     full_hash |-> commit_id,
     message |-> GetList(commit_obj, "message"),
     timestamp |-> commit_obj.timestamp,
     parent |-> CommitId(GetHash(commit_obj, "parent"), HashLen)]

\* one element of the commits list
HistoryEntry(commit_id, commit_obj) ==
    [hash |-> CommitId(commit_id, ShortLen),
     full_hash |-> commit_id,
     message |-> GetList(commit_obj, "message"),
     timestamp |-> IF "timestamp" \in DOMAIN commit_obj
                   THEN commit_obj.timestamp ELSE NoTimestamp,
     parent |-> IF GetHash(commit_obj, "parent") # NoHash
                THEN CommitId(GetHash(commit_obj, "parent"), ShortLen)
                ELSE NoShortHash]

(* Repository.get_commit_history, up to the while loop *)
LogStart(branch_name) ==
    /\ Running
    /\ IF ~initialized
       THEN ReturnUnchanged([op |-> "log", args |-> branch_name, success |-> FALSE,
                             message |-> "", commits |-> <<>>])
       ELSE LET name == IF branch_name = PyNone \/ branch_name = ""
                        THEN get_current_branch ELSE branch_name
            IN  IF name = PyNone \/ CurrentCommitRaises(name)
                   \* heads_dir / None raises; read_text of a directory raises
                THEN ReturnUnchanged([op |-> "log", args |-> branch_name,
                                      success |-> FALSE,
                                      message |-> "Error getting history",
                                      commits |-> <<>>])
                ELSE IF ~RefPathExists(name)
                THEN ReturnUnchanged([op |-> "log", args |-> branch_name,
                                      success |-> FALSE,
                                      message |-> "Branch not found",
                                      commits |-> <<>>])
                ELSE /\ walk' = [pc |-> "loop", args |-> branch_name,
                                 commit_id |-> refs[name].commit,
                                 visited |-> {}, commits |-> <<>>]
                     /\ UNCHANGED <<initialized, head, refs, index, objects, sha1,
                                    work, now, committed, stagedAt, result, pre, procs>>

(* one test of the while condition, and one iteration when it holds *)
LogStep ==
    /\ result = NoResult
    /\ walk.pc = "loop"
    /\ LET commit_id == walk.commit_id
           commit_obj == read_object(commit_id, objects)
           done == [op |-> "log", args |-> walk.args, success |-> TRUE,
                    message |-> "", commits |-> walk.commits]
       IN  IF commit_id # NoHash /\ NotVisited(commit_id, walk.visited)
                /\ commit_obj # NoObject
           THEN /\ walk' = [walk EXCEPT
                               !.visited = @ \cup {commit_id},
                               !.commits = Append(@, HistoryEntry(commit_id, commit_obj)),
                               !.commit_id = GetHash(commit_obj, "parent")]
                /\ UNCHANGED <<result, pre>>
           ELSE \* the loop ends, or breaks on an object that cannot be read
                /\ walk' = NoWalk
                /\ result' = done
                /\ pre' = Disk
    /\ UNCHANGED <<initialized, head, refs, index, objects, sha1, work, now,
                   committed, stagedAt, procs>>

----------------------------------------------------------------------------
(* Reset *)

\* self._match_pattern(staged_file, pattern): Repository defines no such
\* method, so evaluating the call raises AttributeError
MatchPatternRaises == TRUE

(* Repository.reset_files *)
ResetFiles(patterns) ==
    /\ Running
    /\ IF ~initialized
       THEN ReturnUnchanged(NotARepo("reset", patterns))
       ELSE LET staged == index
            IN  IF patterns = <<>>        \* not patterns: None or []
                THEN /\ index' = <<>>
                     /\ Return([op |-> "reset", args |-> patterns, success |-> TRUE,
                                message |-> "Unstaged file(s)", unstaged |-> staged])
                     /\ stagedAt' = StillStaged(index')
                     /\ UNCHANGED <<initialized, head, refs, objects, sha1, work, now,
                                    committed, procs>>
                ELSE IF staged # <<>> /\ MatchPatternRaises
                THEN ReturnUnchanged([op |-> "reset", args |-> patterns,
                                      success |-> FALSE,
                                      message |-> "Error resetting files"])
                ELSE \* the loop over staged runs no iteration
                     /\ index' = <<>>
                     /\ Return([op |-> "reset", args |-> patterns, success |-> TRUE,
                                message |-> "Unstaged file(s)", unstaged |-> <<>>])
                     /\ stagedAt' = StillStaged(index')
                     /\ UNCHANGED <<initialized, head, refs, objects, sha1, work, now,
                                    committed, procs>>

----------------------------------------------------------------------------
(* Diff *)

\* Path.read_text(): strict decoding raises on a byte that is not UTF-8
Undecodable(bytes) == \E i \in DOMAIN bytes : bytes[i] = "BAD"

\* committed_files: path -> blob hash of the tree entries
CommittedFiles(entries) ==
    [p \in {e.path : e \in Range(entries)} |->
        entries[CHOOSE i \in DOMAIN entries :
                   /\ entries[i].path = p
                   /\ \A j \in DOMAIN entries : entries[j].path = p => j <= i
               ].blob_hash]

\* committed_content != working_content for a path in both
ContentChanged(blob_hash, bytes) ==
    GetList(read_object(blob_hash, objects), "content") # ReadText(bytes)

\* the "new" and "modified" entries, found in the order of a set of paths
WorkingChanges(committed_files) ==
    {[file |-> p, status |-> "new"] :
        p \in {q \in Paths : IsFile(q) /\ q \notin DOMAIN committed_files}}
    \cup {[file |-> p, status |-> "modified"] :
        p \in {q \in Paths : /\ IsFile(q)
                              /\ q \in DOMAIN committed_files
                              /\ ContentChanged(committed_files[q], work[q])}}

\* the "deleted" entries, in the order of the tree
DeletedChanges(entries) ==
    LET paths == [i \in DOMAIN entries |-> entries[i].path]
        first == SelectSeq([i \in DOMAIN paths |-> i],
                           LAMBDA i : \A j \in 1..(i - 1) : paths[j] # paths[i])
        gone == SelectSeq(first, LAMBDA i : ~IsFile(paths[i]))
    IN  [k \in DOMAIN gone |-> [file |-> paths[gone[k]], status |-> "deleted"]]

(* Repository.get_changes *)
GetChanges ==
    /\ Running
    /\ IF ~initialized
       THEN ReturnUnchanged([op |-> "diff", args |-> <<>>, success |-> FALSE,
                             message |-> "", changed |-> <<>>])
       ELSE LET current_branch == get_current_branch
                current_commit_hash == get_current_commit(current_branch)
                commit_obj == read_object(current_commit_hash, objects)
                tree_hash == GetHash(commit_obj, "tree")
                tree_obj == read_object(tree_hash, objects)
                entries == GetList(tree_obj, "entries")
                committed_files == CommittedFiles(entries)
                fail(message) == [op |-> "diff", args |-> <<>>, success |-> FALSE,
                                  message |-> message, changed |-> <<>>]
            IN  IF CurrentCommitRaises(current_branch)
                THEN ReturnUnchanged(fail("Error getting diff"))
                ELSE IF current_commit_hash = NoHash
                THEN ReturnUnchanged([op |-> "diff", args |-> <<>>, success |-> TRUE,
                                      message |-> "No commits yet", changed |-> <<>>])
                ELSE IF commit_obj = NoObject
                THEN ReturnUnchanged(fail("Commit not found"))
                ELSE IF \/ tree_hash = NoHash     \* read_object(None, ...) raises
                        \/ \E p \in DOMAIN committed_files :
                              IsFile(p) /\ Undecodable(work[p])
                THEN ReturnUnchanged(fail("Error getting diff"))
                ELSE \E found \in Orderings(WorkingChanges(committed_files)) :
                        ReturnUnchanged([op |-> "diff", args |-> <<>>, success |-> TRUE,
                                         message |-> "",
                                         changed |-> found \o DeletedChanges(entries)])

----------------------------------------------------------------------------
(* Remove *)

\* the metadata files that a pattern of the model can name
IndexPath == ".kingnstar/index"                         \* KINGNSTAR_DIR / INDEX_FILE
FeatureRefPath == ".kingnstar/refs/heads/feature"       \* heads_dir / "feature"
MetaFiles == {HeadPath, IndexPath, FeatureRefPath}
Present == <<"present">>                  \* a metadata file that exists

\* the files glob can find under work_dir: the working files, and the
\* metadata files, which live under the same directory
AllFiles ==
    work @@ [m \in MetaFiles |->
                IF \/ m = HeadPath /\ head # NoFile
                   \/ m = IndexPath /\ index # NoFile
                   \/ m = FeatureRefPath /\ "feature" \in DOMAIN refs
                THEN Present ELSE Absent]

\* a match that takes the pattern literally, without expanding wildcards
MatchedIn_literal(files, pattern) ==
    {p \in Paths : p = pattern /\ files[p] # Absent}

\* glob.glob(str(work_dir / pattern)) and is_file(), over the files left
MatchedIn(files, pattern) ==
    IF pattern = "*.txt" THEN {p \in Paths : files[p] # Absent}
    ELSE {p \in DOMAIN files : p = pattern /\ files[p] # Absent}

\* the loop over patterns: every matched file is unlinked and appended to
\* removed; the outcomes, one per order in which glob lists the files
RECURSIVE RemoveLoop(_, _, _)
RemoveLoop(files, removed, patterns) ==
    IF patterns = <<>> THEN {[files |-> files, removed |-> removed]}
    ELSE LET matched == MatchedIn(files, Head(patterns))
             left == [p \in DOMAIN files |->
                         IF p \in matched THEN Absent ELSE files[p]]
         IN  UNION {RemoveLoop(left, removed \o order, Tail(patterns)) :
                       order \in Orderings(matched)}

(* Repository.remove_files *)
RemoveFiles(patterns) ==
    /\ Running
    /\ IF ~initialized
       THEN ReturnUnchanged(NotARepo("rm", patterns))
       ELSE \E done \in RemoveLoop(AllFiles, <<>>, patterns) :
            LET gone(m) == m \in DOMAIN done.files /\ done.files[m] = Absent
            IN  /\ work' = [p \in Paths |-> done.files[p]]
                /\ head' = IF gone(HeadPath) THEN NoFile ELSE head
                /\ refs' = IF gone(FeatureRefPath)
                           THEN [b \in DOMAIN refs \ {"feature"} |-> refs[b]]
                           ELSE refs
                /\ IF gone(IndexPath)     \* index_file.read_text() raises
                   THEN /\ index' = NoFile
                        /\ stagedAt' = EmptyFun
                        /\ Return([op |-> "rm", args |-> patterns,
                                   success |-> FALSE,
                                   message |-> "Error removing files"])
                   ELSE /\ index' = SelectSeq(index,
                                              LAMBDA f : f \notin Range(done.removed))
                        /\ stagedAt' = StillStaged(index')
                        /\ Return([op |-> "rm", args |-> patterns, success |-> TRUE,
                                   message |-> "Removed file(s)",
                                   removed |-> done.removed])
                /\ UNCHANGED <<initialized, objects, sha1, now, committed, procs>>

----------------------------------------------------------------------------
(* Show and branch list *)

(* Repository.show_commit *)
ShowCommit(commit_id) ==
    /\ Running
    /\ IF ~initialized
       THEN ReturnUnchanged(NotARepo("show", commit_id))
       ELSE IF ResolveCommitId(commit_id, objects) = {}
       THEN ReturnUnchanged([op |-> "show", args |-> commit_id, success |-> FALSE,
                             message |-> "Commit not found"])
       ELSE \E full_hash \in ResolveCommitId(commit_id, objects) :
            LET commit_obj == read_object(full_hash, objects)
                tree_hash == GetHash(commit_obj, "tree")
                tree_obj == read_object(tree_hash, objects)
                entries == GetList(tree_obj, "entries")
            IN  IF tree_hash = NoHash      \* read_object(None, ...) raises
                THEN ReturnUnchanged([op |-> "show", args |-> commit_id,
                                      success |-> FALSE,
                                      message |-> "Error showing commit"])
                ELSE ReturnUnchanged(
                         [op |-> "show", args |-> commit_id, success |-> TRUE,
                          message |-> GetList(commit_obj, "message"),
                          commit |-> CommitId(full_hash, ShortLen),
                          parent |-> IF GetHash(commit_obj, "parent") # NoHash
                                     THEN CommitId(GetHash(commit_obj, "parent"), ShortLen)
                                     ELSE NoShortHash,
                          files |-> [i \in DOMAIN entries |-> entries[i].path]])

\* sorted(branches, key=name) over the branch names of the model
BranchOrder == <<"feature", DEFAULT_BRANCH>>

(* Repository.list_branches *)
ListBranches ==
    /\ Running
    /\ IF ~initialized
       THEN ReturnUnchanged(NotARepo("branches", <<>>))
       ELSE LET names == SelectSeq(BranchOrder, LAMBDA b : b \in DOMAIN refs)
            IN  ReturnUnchanged(
                    [op |-> "branches", args |-> <<>>, success |-> TRUE,
                     message |-> "",
                     branches |-> [i \in DOMAIN names |->
                                      [name |-> names[i],
                                       current |-> names[i] = get_current_branch]]])

----------------------------------------------------------------------------
(* The user edits the working directory between calls *)

EditFile(path, bytes) ==
    /\ Running
    /\ work[path] # bytes
    /\ work' = [work EXCEPT ![path] = bytes]
    /\ UNCHANGED <<initialized, head, refs, index, objects, sha1, now,
                   committed, stagedAt,
                   result, pre, walk, procs>>

----------------------------------------------------------------------------
PatternLists == {<<p>> : p \in Patterns}

\* what the user may type as a commit_id: a digest, or its first characters
StoredOfType(type) == {k \in DOMAIN objects : objects[k].type = type}

CommitIds ==
    {CommitId(h, n) : h \in StoredOfType("commit"), n \in RefLens}
    \cup {CommitId(h, HashLen) : h \in StoredOfType("tree") \cup {MissingHash}}

\* pull never looks for a shortened commit_id: one shortened length is enough
PullIds == {c \in CommitIds : c.len >= ShortLen /\ c.hash \notin StoredOfType("tree")}

SourceBranches == {"feature"}

Edits == ({"a.txt"} \X (FileBytes \cup {Absent})) \cup ({"b.txt"} \X {<<"x">>, Absent})

Next ==
    \/ Initialize
    \/ \E patterns \in PatternLists : AddFiles(patterns)
    \/ \E message \in Messages : CommitFiles(message)
    \/ \E name \in BranchNames, pw \in NewPasswords \cup {PyNone} :
          CreateBranch(name, pw)
    \/ \E name \in BranchNames, pw \in Passwords : SwitchBranch(name, pw)
    \/ \E commit_id \in CommitIds : CheckoutCommit(commit_id)
    \/ \E name \in SourceBranches, commit_id \in PullIds :
          PullCommit(name, commit_id)
    \/ \E commit_id \in PullIds : PullCommitConfirm(commit_id)
    \/ \E e \in Edits : EditFile(e[1], e[2])

Spec == Init /\ [][Next]_vars

----------------------------------------------------------------------------
(* Sessions in which the user also types the name of a directory that      *)
(* exists next to the branch files (heads_dir / ".." is .kingnstar/refs)   *)

SwitchNames == BranchNames \cup {DirName}
DirPasswords == {"pw1", PyNone}
DirEdits == {"a.txt"} \X {<<"x">>, Absent}

NextDir ==
    \/ Initialize
    \/ \E patterns \in {<<"a.txt">>} : AddFiles(patterns)
    \/ \E message \in Messages : CommitFiles(message)
    \/ \E name \in SwitchNames, pw \in NewPasswords : CreateBranch(name, pw)
    \/ \E name \in SwitchNames, pw \in DirPasswords : SwitchBranch(name, pw)
    \/ \E commit_id \in CommitIds : CheckoutCommit(commit_id)
    \/ \E e \in DirEdits : EditFile(e[1], e[2])

SpecDir == Init /\ [][NextDir]_vars

----------------------------------------------------------------------------
(* Sessions over text files with Unix, Windows and old Mac line ends      *)

TextBytes == {<<"x", "LF">>, <<"x", "CR", "LF">>, <<"x", "CR">>}
TextEdits == {"a.txt"} \X (TextBytes \cup {Absent})

NextText ==
    \/ Initialize
    \/ \E patterns \in {<<"a.txt">>} : AddFiles(patterns)
    \/ \E message \in Messages : CommitFiles(message)
    \/ \E commit_id \in CommitIds : CheckoutCommit(commit_id)
    \/ GetChanges
    \/ \E e \in TextEdits : EditFile(e[1], e[2])

SpecText == Init /\ [][NextText]_vars

----------------------------------------------------------------------------
(* Sessions that read the history of a branch                              *)

LogBranches == {PyNone, DEFAULT_BRANCH, "feature", "nobranch"}
LogCheckoutIds == {CommitId(h, HashLen) : h \in StoredOfType("commit")}

NextLog ==
    \/ Initialize
    \/ \E patterns \in {<<"a.txt">>} : AddFiles(patterns)
    \/ \E message \in Messages : CommitWithin(message, MaxLogCommits)
    \/ \E pw \in NewPasswords : CreateBranch("feature", pw)
    \/ \E name \in BranchNames, pw \in NewPasswords : SwitchBranch(name, pw)
    \/ \E commit_id \in LogCheckoutIds : CheckoutCommit(commit_id)
    \/ \E e \in DirEdits : EditFile(e[1], e[2])
    \/ \E name \in LogBranches : LogStart(name)
    \/ LogStep

SpecLog == Init /\ [][NextLog]_vars

----------------------------------------------------------------------------
(* Log over a damaged repository: the objects directory holds any objects, *)
(* whose parent links may form cycles, name missing objects or name        *)
(* objects that are no commits, and the branch file holds any hash         *)

StoredHashes == 1..MaxStored
DamagedLinks == 0..(MaxStored + 1)        \* NoHash, a stored hash, a missing hash
DamagedObjects ==
    {Tree(<<>>)} \cup {Commit(NoHash, parent, <<"m1">>, NoTimestamp) :
                          parent \in DamagedLinks}

InitDamaged ==
    /\ initialized = TRUE
    /\ head = HeadRef(DEFAULT_BRANCH)
    /\ \E tip \in DamagedLinks : refs = (DEFAULT_BRANCH :> PlainRef(tip))
    /\ index = <<>>
    /\ objects \in [StoredHashes -> DamagedObjects]
    /\ sha1 = <<>>
    /\ work = [p \in Paths |-> Absent]
    /\ now = 0
    /\ committed = EmptyFun
    /\ stagedAt = EmptyFun
    /\ procs = NoProcs
    /\ result = NoResult
    /\ pre = NoResult
    /\ walk = NoWalk

NextDamaged ==
    \/ \E name \in {PyNone, DEFAULT_BRANCH} : LogStart(name)
    \/ LogStep

\* a call that has started goes on running
SpecDamaged == InitDamaged /\ [][NextDamaged]_vars /\ WF_vars(LogStep)

----------------------------------------------------------------------------
(* Sessions that stage, unstage, remove and compare files                  *)

StagePatternLists ==
    PatternLists \cup {<<p, q>> : p \in Patterns, q \in Paths}
\* pattern lists for add: also the ones that name the metadata directory
AddPatternLists ==
    StagePatternLists \cup {<<KINGNSTAR_DIR>>, <<HeadPath>>}
        \cup {<<p, q>> : p \in Paths, q \in {KINGNSTAR_DIR, HeadPath}}
ResetPatterns == {<<>>} \cup PatternLists

NextStage ==
    \/ Initialize
    \/ \E patterns \in AddPatternLists : AddFiles(patterns)
    \/ \E message \in Messages : CommitFiles(message)
    \/ \E patterns \in ResetPatterns : ResetFiles(patterns)
    \/ \E patterns \in StagePatternLists : RemoveFiles(patterns)
    \/ GetChanges
    \/ \E e \in Edits : EditFile(e[1], e[2])

SpecStage == Init /\ [][NextStage]_vars

----------------------------------------------------------------------------
(* Sessions that use every command, over one file and two branches         *)

AllIds == LogCheckoutIds \cup {CommitId(MissingHash, HashLen)}

\* shortened commit_ids: the shard prefix alone, one character short of the
\* displayed length, and the displayed length
ShortIds ==
    {CommitId(h, n) : h \in StoredOfType("commit") \cup {MissingHash},
                      n \in {ShardLen, ShortLen - 1, ShortLen}}

NextAll ==
    \/ Initialize
    \/ \E patterns \in {<<"a.txt">>} : AddFiles(patterns)
    \/ \E message \in Messages : CommitFiles(message)
    \/ ListBranches
    \/ \E pw \in NewPasswords : CreateBranch("feature", pw)
    \/ \E name \in BranchNames, pw \in NewPasswords : SwitchBranch(name, pw)
    \/ \E commit_id \in AllIds : PullCommit("feature", commit_id)
    \/ \E commit_id \in AllIds : PullCommitConfirm(commit_id)
    \/ \E commit_id \in AllIds \cup ShortIds : CheckoutCommit(commit_id)
    \/ \E name \in {PyNone, "feature"} : LogStart(name)
    \/ LogStep
    \/ \E commit_id \in AllIds \cup ShortIds : ShowCommit(commit_id)
    \/ \E patterns \in {<<>>, <<"a.txt">>} : ResetFiles(patterns)
    \/ GetChanges
    \/ \E patterns \in {<<"a.txt">>} : RemoveFiles(patterns)
    \/ \E e \in DirEdits : EditFile(e[1], e[2])

SpecAll == Init /\ [][NextAll]_vars

----------------------------------------------------------------------------
(* Invocations that run at the same time.  The program takes no lock: each *)
(* invocation is its own process, and its reads and writes of the metadata *)
(* files interleave with those of the others.  A step is one read or write *)
(* of a file that another invocation may write; what an invocation holds   *)
(* between two steps is in procs.                                          *)

Procs == {1, 2}
MaxRaceCommits == 3   \* Commit objects built in a behaviour with concurrent commits

\* no invocation has started beside the session's
Quiet == procs = NoProcs

Idle == [pc |-> "idle"]
Locals(self) == IF self \in DOMAIN procs THEN procs[self] ELSE Idle
Returned(self, r) == (self :> [pc |-> "done", result |-> r]) @@ procs

\* an add that reads the index again when it writes it
StagedRead_fresh(self) == index

\* the local `staged` of add_files: what the invocation read from the index
StagedRead(self) == procs[self].staged

(* add_files up to the read of the index *)
AddStart(self, patterns) ==
    /\ Running
    /\ Locals(self).pc = "idle"
    /\ procs' = IF ~initialized
                THEN Returned(self, NotARepo("add", patterns))
                ELSE (self :> [pc |-> "add", patterns |-> patterns,
                               staged |-> index]) @@ procs
    /\ UNCHANGED <<initialized, head, refs, index, objects, sha1, work, now,
                   committed, stagedAt, result, pre, walk>>

(* add_files from the loop over the patterns to the write of the index *)
AddSave(self) ==
    /\ Locals(self).pc = "add"
    /\ LET patterns == procs[self].patterns
       IN  IF \E i \in DOMAIN patterns : Globbed(patterns[i]) = {}
           THEN /\ procs' = Returned(self, [op |-> "add", args |-> patterns,
                                            success |-> FALSE,
                                            message |-> "No files matched pattern"])
                /\ UNCHANGED <<index, stagedAt>>
           ELSE \E added \in AddedLists(patterns) :
                /\ index' = StagedAfter(StagedRead(self), added)
                /\ stagedAt' = [p \in Range(added) |-> ReadBytes(p)]
                                  @@ StillStaged(index')
                /\ procs' = (self :> [pc |-> "done",
                                      staged |-> procs[self].staged,
                                      result |-> [op |-> "add", args |-> patterns,
                                                  success |-> TRUE,
                                                  message |-> "Staged file(s)",
                                                  files |-> added]]) @@ procs
    /\ UNCHANGED <<initialized, head, refs, objects, sha1, work, now, committed,
                   result, pre, walk>>

(* commit up to get_staged_files *)
CommitStart(self, message) ==
    /\ Running
    /\ Locals(self).pc = "idle"
    /\ procs' = IF ~initialized
                THEN Returned(self, NotARepo("commit", message))
                ELSE IF get_staged_files = <<>>
                THEN Returned(self, [op |-> "commit", args |-> message,
                                     success |-> FALSE,
                                     message |-> "No files staged for commit"])
                ELSE (self :> [pc |-> "commit", message |-> message,
                               staged_files |-> get_staged_files]) @@ procs
    /\ UNCHANGED <<initialized, head, refs, index, objects, sha1, work, now,
                   committed, stagedAt, result, pre, walk>>

(* commit from the blobs to the Commit object: the parent is read here *)
CommitStore(self) ==
    /\ Locals(self).pc = "commit"
    /\ LET message == procs[self].message
           blobs == BlobLoop(sha1, objects, <<>>, procs[self].staged_files)
           tree == StoreObject(blobs.table, blobs.store, Tree(blobs.blob_hashes))
           current_branch == get_current_branch
           parent_hash == CommitParent(current_branch)
           commit == StoreObject(tree.table, tree.store,
                                 Commit(tree.hash, parent_hash, message, now))
       IN  IF CurrentCommitRaises(current_branch)
           THEN /\ sha1' = tree.table
                /\ objects' = tree.store
                /\ procs' = Returned(self, [op |-> "commit", args |-> message,
                                            success |-> FALSE,
                                            message |-> "Error creating commit"])
                /\ UNCHANGED <<now, committed>>
           ELSE /\ now < MaxRaceCommits
                /\ now' = now + 1
                /\ sha1' = commit.table
                /\ objects' = commit.store
                /\ committed' = (commit.hash :>
                                   [p \in {e.path : e \in Range(blobs.blob_hashes)}
                                      |-> work[p]]) @@ committed
                /\ procs' = (self :> [pc |-> "point", message |-> message,
                                      current_branch |-> current_branch,
                                      commit_hash |-> commit.hash]) @@ procs
    /\ UNCHANGED <<initialized, head, refs, index, work, stagedAt, result, pre, walk>>

(* commit: branch_ref.write_text(commit_hash) *)
CommitPoint(self) ==
    /\ Locals(self).pc = "point"
    /\ refs' = WritePlainPointer(refs, procs[self].current_branch,
                                 procs[self].commit_hash)
    /\ procs' = [procs EXCEPT ![self].pc = "clear"]
    /\ UNCHANGED <<initialized, head, index, objects, sha1, work, now, committed,
                   stagedAt, result, pre, walk>>

(* commit: the index is cleared and the dict returned *)
CommitClear(self) ==
    /\ Locals(self).pc = "clear"
    /\ index' = ClearedIndex
    /\ stagedAt' = StillStaged(index')
    /\ procs' = Returned(self, [op |-> "commit", args |-> procs[self].message,
                                success |-> TRUE, message |-> "Created commit",
                                commit_hash |-> procs[self].commit_hash])
    /\ UNCHANGED <<initialized, head, refs, objects, sha1, work, now, committed,
                   result, pre, walk>>

RacePatterns == {<<"a.txt">>, <<"b.txt">>}
RaceEdits == {<<"a.txt", <<"x">>>>, <<"b.txt", <<"y">>>>}

\* a session of calls made one after the other, then two invocations at once
NextRace ==
    \/ Quiet /\ Initialize
    \/ Quiet /\ \E e \in RaceEdits : EditFile(e[1], e[2])
    \/ Quiet /\ \E patterns \in RacePatterns : AddFiles(patterns)
    \/ Quiet /\ \E message \in Messages : CommitWithin(message, 1)
    \/ \E self \in Procs, patterns \in RacePatterns : AddStart(self, patterns)
    \/ \E self \in Procs : AddSave(self)
    \/ \E self \in Procs, message \in Messages : CommitStart(self, message)
    \/ \E self \in Procs : CommitStore(self)
    \/ \E self \in Procs : CommitPoint(self)
    \/ \E self \in Procs : CommitClear(self)

SpecRace == Init /\ [][NextRace]_vars

----------------------------------------------------------------------------
(* Sessions in which remove is handed the path of a metadata file.  The   *)
(* session goes on as long as HEAD, the index and the current branch's    *)
(* record are in place.                                                    *)

Intact ==
    initialized =>
        /\ head # NoFile
        /\ index # NoFile
        /\ get_current_branch \in DOMAIN refs

MetaPatternLists ==
    {<<m>> : m \in MetaFiles}
        \cup {<<"a.txt", m>> : m \in MetaFiles}
        \cup {<<m, "a.txt">> : m \in MetaFiles}

NextMeta ==
    \/ Intact /\ Initialize
    \/ Intact /\ \E e \in DirEdits : EditFile(e[1], e[2])
    \/ Intact /\ \E patterns \in {<<"a.txt">>} : AddFiles(patterns)
    \/ Intact /\ \E message \in Messages : CommitFiles(message)
    \/ Intact /\ \E pw \in NewPasswords : CreateBranch("feature", pw)
    \/ Intact /\ \E name \in BranchNames, pw \in NewPasswords : SwitchBranch(name, pw)
    \/ Intact /\ \E patterns \in MetaPatternLists : RemoveFiles(patterns)

SpecMeta == Init /\ [][NextMeta]_vars

----------------------------------------------------------------------------
(* The object files.  An object's content is a JSON value; the file holds *)
(* json.dumps(content) and read_object parses it back.  Text is a sequence *)
(* of characters: "QUOTE", "BSLASH", "LF", "CR" and "é" (a character that  *)
(* is not ASCII) are the ones json.dumps escapes, every other token is an  *)
(* ordinary character.                                                     *)

JStr(s) == [t |-> "str", s |-> s]
JNull == [t |-> "null"]
JList(items) == [t |-> "list", items |-> items]
JDict(keys, vals) == [t |-> "dict", keys |-> keys, vals |-> vals]
JsonError == [t |-> "error"]              \* json.loads raises JSONDecodeError

\* a string written between the quotes as it is
EscapeChar_raw(c) == <<c>>

\* json.dumps, ensure_ascii=True: the escape sequence of one character
EscapeChar(c) ==
    IF c = "QUOTE" THEN <<"BSLASH", "QUOTE">>
    ELSE IF c = "BSLASH" THEN <<"BSLASH", "BSLASH">>
    ELSE IF c = "LF" THEN <<"BSLASH", "n">>
    ELSE IF c = "CR" THEN <<"BSLASH", "r">>
    ELSE IF c = "é" THEN <<"BSLASH", "u00e9">>
    ELSE <<c>>

RECURSIVE Escape(_)
Escape(s) == IF s = <<>> THEN <<>> ELSE EscapeChar(Head(s)) \o Escape(Tail(s))

DumpString(s) == <<"QUOTE">> \o Escape(s) \o <<"QUOTE">>

\* sort_keys=True: the keys of the objects in lexicographic order
KeyOrder == <<"blob_hash", "content", "entries", "hash", "message", "parent",
              "path", "timestamp", "tree", "type">>

\* the positions of a dict's keys in the order json.dumps writes them
KeyPositions(keys, sort_keys) ==
    IF sort_keys
    THEN LET at(k) == CHOOSE i \in DOMAIN keys : keys[i] = <<k>>
             present == SelectSeq(KeyOrder, LAMBDA k : \E i \in DOMAIN keys : keys[i] = <<k>>)
         IN  [j \in DOMAIN present |-> at(present[j])]
    ELSE [i \in DOMAIN keys |-> i]

\* json.dumps(content) and json.dumps(content, sort_keys=True), with the
\* default separators ", " and ": "
RECURSIVE json_dumps(_, _)
RECURSIVE DumpJoined(_, _)
DumpJoined(parts, sort_keys) ==
    IF parts = <<>> THEN <<>>
    ELSE LET first == IF Head(parts).key = <<>>
                      THEN json_dumps(Head(parts).val, sort_keys)
                      ELSE DumpString(Head(parts).key) \o <<":", " ">>
                               \o json_dumps(Head(parts).val, sort_keys)
         IN  IF Len(parts) = 1 THEN first
             ELSE first \o <<",", " ">> \o DumpJoined(Tail(parts), sort_keys)

json_dumps(v, sort_keys) ==
    IF v.t = "null" THEN <<"null">>
    ELSE IF v.t = "str" THEN DumpString(v.s)
    ELSE IF v.t = "list"
         THEN <<"[">> \o DumpJoined([i \in DOMAIN v.items |->
                                        [key |-> <<>>, val |-> v.items[i]]], sort_keys)
                      \o <<"]">>
         ELSE LET pos == KeyPositions(v.keys, sort_keys)
              IN  <<"{">> \o DumpJoined([j \in DOMAIN pos |->
                                           [key |-> v.keys[pos[j]],
                                            val |-> v.vals[pos[j]]]], sort_keys)
                          \o <<"}">>

\* the character an escape sequence stands for
Unescape ==
    ("n" :> "LF") @@ ("r" :> "CR") @@ ("QUOTE" :> "QUOTE")
        @@ ("BSLASH" :> "BSLASH") @@ ("u00e9" :> "é")

ParseFail == [ok |-> FALSE]
Parsed(v, rest) == [ok |-> TRUE, v |-> v, rest |-> rest]

\* the token at position i follows an odd number of backslashes: it is the
\* second character of an escape sequence
Escaped(toks, i) ==
    LET run == CHOOSE n \in 0..(i - 1) :
                   /\ \A j \in (i - n)..(i - 1) : toks[j] = "BSLASH"
                   /\ (n = i - 1 \/ toks[i - n - 1] # "BSLASH")
    IN  run % 2 = 1

\* the characters of a JSON string up to its closing quote, toks being what
\* follows the opening quote; a raw control character or an unknown escape
\* inside the string is an error
ParseChars(toks) ==
    LET closing == {i \in DOMAIN toks : toks[i] = "QUOTE" /\ ~Escaped(toks, i)}
        close == CHOOSE i \in closing : \A j \in closing : i <= j
        body == SubSeq(toks, 1, close - 1)
        kept == SelectSeq([j \in DOMAIN body |-> j],
                          LAMBDA j : body[j] # "BSLASH" \/ Escaped(body, j))
    IN  IF closing = {} THEN ParseFail
        ELSE IF \E j \in DOMAIN body :
                   \/ body[j] \in {"LF", "CR"}
                   \/ Escaped(body, j) /\ body[j] \notin DOMAIN Unescape
             THEN ParseFail
             ELSE Parsed([k \in DOMAIN kept |->
                             IF Escaped(body, kept[k]) THEN Unescape[body[kept[k]]]
                             ELSE body[kept[k]]],
                         SubSeq(toks, close + 1, Len(toks)))

\* toks with the separator sep removed from its front, or ParseFail
SkipSeparator(toks, sep) ==
    IF Len(toks) >= Len(sep) /\ SubSeq(toks, 1, Len(sep)) = sep
    THEN Parsed(sep, SubSeq(toks, Len(sep) + 1, Len(toks)))
    ELSE ParseFail

RECURSIVE ParseValue(_)
RECURSIVE ParseItems(_, _)
RECURSIVE ParseMembers(_, _, _)

ParseItems(toks, items) ==
    LET item == ParseValue(toks)
    IN  IF ~item.ok \/ item.rest = <<>> THEN ParseFail
        ELSE IF Head(item.rest) = "]"
             THEN Parsed(JList(Append(items, item.v)), Tail(item.rest))
             ELSE LET more == SkipSeparator(item.rest, <<",", " ">>)
                  IN  IF more.ok THEN ParseItems(more.rest, Append(items, item.v))
                      ELSE ParseFail

ParseMembers(toks, keys, vals) ==
    IF toks = <<>> \/ Head(toks) # "QUOTE" THEN ParseFail
    ELSE LET key == ParseChars(Tail(toks))
             colon == IF key.ok THEN SkipSeparator(key.rest, <<":", " ">>) ELSE ParseFail
             val == IF colon.ok THEN ParseValue(colon.rest) ELSE ParseFail
         IN  IF ~val.ok \/ val.rest = <<>> THEN ParseFail
             ELSE IF Head(val.rest) = "}"
                  THEN Parsed(JDict(Append(keys, key.v), Append(vals, val.v)),
                              Tail(val.rest))
                  ELSE LET more == SkipSeparator(val.rest, <<",", " ">>)
                       IN  IF more.ok
                           THEN ParseMembers(more.rest, Append(keys, key.v),
                                             Append(vals, val.v))
                           ELSE ParseFail

ParseValue(toks) ==
    IF toks = <<>> THEN ParseFail
    ELSE IF Head(toks) = "null" THEN Parsed(JNull, Tail(toks))
    ELSE IF Head(toks) = "QUOTE"
         THEN LET str == ParseChars(Tail(toks))
              IN  IF str.ok THEN Parsed(JStr(str.v), str.rest) ELSE ParseFail
    ELSE IF Head(toks) = "["
         THEN IF Len(toks) >= 2 /\ toks[2] = "]"
              THEN Parsed(JList(<<>>), SubSeq(toks, 3, Len(toks)))
              ELSE ParseItems(Tail(toks), <<>>)
    ELSE IF Head(toks) = "{"
         THEN IF Len(toks) >= 2 /\ toks[2] = "}"
              THEN Parsed(JDict(<<>>, <<>>), SubSeq(toks, 3, Len(toks)))
              ELSE ParseMembers(Tail(toks), <<>>, <<>>)
    ELSE ParseFail

\* json.loads(text)
json_loads(text) ==
    LET top == ParseValue(text)
    IN  IF top.ok /\ top.rest = <<>> THEN top.v ELSE JsonError

\* object_file.write_text(json.dumps(self.content))
ObjectFile(content) == WriteText(json_dumps(content, FALSE))

\* Path.read_text() of an object file: universal newlines turn CR LF and a
\* lone CR into LF (the file holds ASCII only)
read_text(bytes) ==
    LET kept == SelectSeq([j \in DOMAIN bytes |-> j],
                          LAMBDA j : ~(bytes[j] = "LF" /\ j > 1 /\ bytes[j - 1] = "CR"))
    IN  [k \in DOMAIN kept |-> IF bytes[kept[k]] = "CR" THEN "LF" ELSE bytes[kept[k]]]

\* read_object over the object files: json.loads(object_file.read_text())
read_object_file(obj_hash, store) ==
    IF obj_hash \in DOMAIN store THEN json_loads(read_text(store[obj_hash]))
    ELSE NoObject

(* the contents Blob, Tree and Commit hand to KingnstarObject *)
BlobContent(path, text) ==
    JDict(<<<<"type">>, <<"path">>, <<"hash">>, <<"content">>>>,
          <<JStr(<<"b", "l", "o", "b">>), JStr(path), JStr(<<"d", "1">>), JStr(text)>>)

TreeContent(entries) ==
    JDict(<<<<"type">>, <<"entries">>>>,
          <<JStr(<<"t", "r", "e", "e">>),
            JList([i \in DOMAIN entries |->
                      JDict(<<<<"path">>, <<"blob_hash">>>>,
                            <<JStr(entries[i]), JStr(<<"d", "2">>)>>)])>>)

CommitContent(parent, message) ==
    JDict(<<<<"type">>, <<"tree">>, <<"parent">>, <<"message">>, <<"timestamp">>>>,
          <<JStr(<<"c", "o", "m", "m", "i", "t">>), JStr(<<"d", "3">>), parent,
            JStr(message), JStr(<<"2", "0">>)>>)

MaxText == 2       \* characters of a file, a path or a message
MaxPuts == 2       \* objects written in one behaviour

TextChars == {"x", "n", "LF", "CR", "QUOTE", "BSLASH", "é"}
Texts == UNION {[1..n -> TextChars] : n \in 0..MaxText}
PathTexts == {<<"a">>, <<"a", "QUOTE">>}
StoreContents ==
    {BlobContent(<<"a">>, text) : text \in Texts}
        \cup {TreeContent(entries) :
                 entries \in UNION {[1..n -> PathTexts] : n \in 0..2}}
        \cup {CommitContent(parent, message) :
                 parent \in {JNull, JStr(<<"d", "4">>)},
                 message \in {text \in Texts : Len(text) <= 1}}

(* KingnstarObject(content).write_to_disk(objects_dir) *)
PutObject(content) ==
    /\ Running
    /\ LET obj_hash == compute_hash(sha1, json_dumps(content, TRUE))
       IN  /\ obj_hash <= MaxPuts
           /\ sha1' = Digested(sha1, json_dumps(content, TRUE))
           /\ objects' = write_to_disk(objects, obj_hash, ObjectFile(content))
           /\ Return([op |-> "put", args |-> content, hash |-> obj_hash])
    /\ UNCHANGED <<initialized, head, refs, index, work, now, committed, stagedAt, procs>>

(* read_object(obj_hash, objects_dir) *)
GetObject(obj_hash) ==
    /\ Running
    /\ ReturnUnchanged([op |-> "get", args |-> obj_hash,
                        value |-> read_object_file(obj_hash, objects)])

InitStore ==
    /\ initialized = TRUE
    /\ head = HeadRef(DEFAULT_BRANCH)
    /\ refs = (DEFAULT_BRANCH :> PlainRef(NoHash))
    /\ index = <<>>
    /\ objects = EmptyFun
    /\ sha1 = <<>>
    /\ work = [p \in Paths |-> Absent]
    /\ now = 0
    /\ committed = EmptyFun
    /\ stagedAt = EmptyFun
    /\ procs = NoProcs
    /\ result = NoResult
    /\ pre = NoResult
    /\ walk = NoWalk

NextStore ==
    \/ \E content \in StoreContents : PutObject(content)
    \/ \E obj_hash \in 1..(MaxPuts + 1) : GetObject(obj_hash)

SpecStore == InitStore /\ [][NextStore]_vars

----------------------------------------------------------------------------
(* Properties.  `result` is the last call and what it returned, `pre` the  *)
(* disk that call started from, the unprimed variables the disk it left.   *)

Called(op) == result.op = op
Succeeded(op) == result.op = op /\ result.success
Failed(op, message) ==
    result.op = op /\ ~result.success /\ result.message = message

\* the branch HEAD named when the call started
PreBranch == pre.head[2]

\* every branch file but b is what it was when the call started
OthersUnchanged(b) ==
    /\ DOMAIN refs \ {b} = DOMAIN pre.refs \ {b}
    /\ \A o \in DOMAIN pre.refs \ {b} : refs[o] = pre.refs[o]

\* C1: after a successful commit a new commit object is stored whose parent
\* is the current branch's pointer as it was before the call (absent when
\* that pointer was empty), the current branch's pointer is the returned
\* hash, and HEAD and every other branch's pointer are unchanged.
C1_CommitAdvancesCurrentBranch ==
    Succeeded("commit") =>
        LET h == result.commit_hash
        IN  /\ pre.index # <<>>
            /\ h \notin DOMAIN pre.objects
            /\ h \in DOMAIN objects
            /\ objects[h].type = "commit"
            /\ objects[h].parent = pre.refs[PreBranch].commit
            /\ refs[PreBranch].commit = h
            /\ head = pre.head
            /\ OthersUnchanged(PreBranch)

\* a second commit on a branch, made while another branch has a commit too
C1_Witness ==
    /\ Succeeded("commit")
    /\ pre.refs[PreBranch].commit # NoHash
    /\ objects[result.commit_hash].parent = pre.refs[PreBranch].commit
    /\ \E o \in DOMAIN pre.refs \ {PreBranch} : pre.refs[o].commit # NoHash

\* C2: when commit, checkout or pull_confirm advances the pointer of a
\* branch whose record carries a password hash, the record afterwards
\* carries the same password hash.
C2_AdvanceKeepsPasswordHash ==
    (\/ Succeeded("commit") \/ Succeeded("checkout") \/ Succeeded("pull_confirm"))
        => refs[PreBranch].password_hash = pre.refs[PreBranch].password_hash

C4_OverrideCredentialOpensEveryBranch ==
    (/\ Called("switch")
     /\ result.args[1] \in DOMAIN pre.refs
     /\ result.args[2] = MASTER_PASSWORD)
        => /\ result.success
           /\ head = HeadRef(result.args[1])

\* the override credential opens a protected branch, from another branch
C4_Witness ==
    /\ Succeeded("switch")
    /\ result.args[2] = MASTER_PASSWORD
    /\ pre.refs[result.args[1]].password_hash = <<"sha256", "pw1">>
    /\ pre.head # head
    /\ head = HeadRef(result.args[1])

\* C5: switch to a branch whose record carries no password hash succeeds
\* for every password, none included, and HEAD then names that branch;
\* switch to a name with no branch record fails with "does not exist" and
\* leaves HEAD and the index unchanged (in an initialized repository).
C5_SwitchUnprotectedOrUnknown ==
    (Called("switch") /\ pre.initialized) =>
        /\ (/\ result.args[1] \in DOMAIN pre.refs
            /\ pre.refs[result.args[1]].password_hash = NoPasswordHash)
               => /\ result.success
                  /\ head = HeadRef(result.args[1])
        /\ result.args[1] \notin DOMAIN pre.refs
               => /\ Failed("switch", "Branch does not exist")
                  /\ head = pre.head
                  /\ index = pre.index

\* C6: the index is empty right after every successful commit, checkout
\* and switch, whatever it held before.
C6_IndexClearedOnSuccess ==
    (\/ Succeeded("commit") \/ Succeeded("checkout") \/ Succeeded("switch"))
        => index = <<>>

\* a checkout made while a file was staged
C6_Witness ==
    /\ Succeeded("checkout")
    /\ pre.index # <<>>
    /\ index = <<>>

\* C7: after a successful create_branch(name, password) the new branch's
\* pointer is the current branch's pointer at the time of the call, its
\* record carries the hash of the password, and HEAD, the index and every
\* other branch record are unchanged.
C7_CreateBranchSnapshotsCurrentTip ==
    Succeeded("create_branch") =>
        LET name == result.args[1]
        IN  /\ name \in DOMAIN refs
            /\ refs[name].commit = pre.refs[PreBranch].commit
            /\ refs[name].password_hash = <<"sha256", result.args[2]>>
            /\ head = pre.head
            /\ index = pre.index
            /\ OthersUnchanged(name)

\* a branch created from a branch that has a commit, with a file staged
C7_Witness ==
    /\ Succeeded("create_branch")
    /\ pre.refs[PreBranch].commit # NoHash
    /\ refs[result.args[1]].commit = pre.refs[PreBranch].commit
    /\ result.args[1] \notin DOMAIN pre.refs
    /\ pre.index # <<>>

\* C8: create_branch for a name that already has a branch record (the
\* default branch included) fails with "already exists" and leaves that
\* record's commit pointer and password hash unchanged.
C8_CreateExistingBranchFails ==
    (Called("create_branch") /\ result.args[1] \in DOMAIN pre.refs)
        => /\ Failed("create_branch", "Branch already exists")
           /\ refs[result.args[1]] = pre.refs[result.args[1]]

\* create_branch on the default branch, which has a commit
C8_Witness ==
    /\ Failed("create_branch", "Branch already exists")
    /\ result.args[1] = DEFAULT_BRANCH
    /\ result.args[2] # PyNone
    /\ pre.refs[DEFAULT_BRANCH].commit # NoHash

\* C9: if commit c was produced by commit, then after a successful
\* checkout(c) every path of c's tree has the content the file had when c
\* was committed.
C9_CheckoutRoundTrip ==
    (Succeeded("checkout") /\ result.args.hash \in DOMAIN committed)
        => \A p \in DOMAIN committed[result.args.hash] :
               work[p] = committed[result.args.hash][p]

\* C10: after a successful checkout the current branch's pointer is the
\* full hash of the resolved commit, also for a commit made on another
\* branch or older than the previous tip; HEAD and every other branch's
\* pointer are unchanged.
C10_CheckoutMovesCurrentBranch ==
    Succeeded("checkout") =>
        LET h == result.args.hash
        IN  /\ h \in DOMAIN objects
            /\ objects[h].type = "commit"
            /\ result.message_hash = CommitId(h, ShortLen)
            /\ refs[PreBranch].commit = h
            /\ head = pre.head
            /\ OthersUnchanged(PreBranch)

\* a commit made on another branch, on top of the current branch's tip,
\* checked out by its first eight characters
C10_Witness ==
    /\ Succeeded("checkout")
    /\ result.args.len = ShortLen
    /\ pre.refs[PreBranch].commit # NoHash
    /\ objects[result.args.hash].parent = pre.refs[PreBranch].commit
    /\ \E o \in DOMAIN pre.refs \ {PreBranch} :
           pre.refs[o].commit = result.args.hash
    /\ refs[PreBranch].commit = result.args.hash

\* the tree entries of commit h in the object store the call started from
\* (<<>> when h or its tree is not stored)
PreTreeEntries(h) ==
    GetList(read_object(GetHash(read_object(h, pre.objects), "tree"), pre.objects),
            "entries")

\* h named a stored commit with a stored tree when the call started
PreIsCommit(h) ==
    /\ h \in DOMAIN pre.objects
    /\ pre.objects[h].type = "commit"
    /\ pre.objects[h].tree \in DOMAIN pre.objects

\* C11: pull of a commit whose tree names at least one path that exists as
\* a file in the working directory returns "conflicts detected" with a
\* conflict list of exactly those paths and requires_confirmation, and
\* changes nothing on disk.
C11_PullConflictChangesNothing ==
    (/\ Called("pull")
     /\ result.args[2].len = HashLen
     /\ PreIsCommit(result.args[2].hash)
     /\ \E e \in Range(PreTreeEntries(result.args[2].hash)) :
            pre.work[e.path] # Absent)
        => LET existing == {e.path : e \in
                              {x \in Range(PreTreeEntries(result.args[2].hash)) :
                                  pre.work[x.path] # Absent}}
           IN  /\ Failed("pull", "File conflicts detected")
               /\ result.requires_confirmation
               /\ Range(result.conflicts) = existing
               /\ Len(result.conflicts) = Cardinality(existing)
               /\ Disk = pre

\* a pull of a two-file commit while only one of the files exists
C11_Witness ==
    /\ Failed("pull", "File conflicts detected")
    /\ Len(PreTreeEntries(result.args[2].hash)) = 2
    /\ Len(result.conflicts) = 1
    /\ Disk = pre

\* C12: after a successful pull_confirm every path named in the pulled
\* commit's tree exists in the working directory with the content stored in
\* that entry's blob, whatever the file held before.
C12_PullConfirmRestoresFiles ==
    Succeeded("pull_confirm") =>
        \A e \in Range(PreTreeEntries(result.args.hash)) :
            e.blob_hash \in DOMAIN objects
                => work[e.path] = WriteText(objects[e.blob_hash].content)

\* the commit handed to the last pull or pull_confirm
PulledHash == IF result.op = "pull" THEN result.args[2].hash ELSE result.args.hash

\* C13: after a successful pull_confirm(c), or pull of c without conflicts,
\* the current branch's pointer names a newly stored commit whose tree is
\* c's tree and whose parent is the branch's pointer before the call; HEAD
\* and every other branch's pointer are unchanged.
C13_PullAddsCommitOnCurrentBranch ==
    (Succeeded("pull_confirm") \/ Succeeded("pull")) =>
        LET n == refs[PreBranch].commit
        IN  /\ PreIsCommit(PulledHash)
            /\ n \notin DOMAIN pre.objects
            /\ n \in DOMAIN objects
            /\ objects[n].type = "commit"
            /\ objects[n].tree = pre.objects[PulledHash].tree
            /\ objects[n].parent = pre.refs[PreBranch].commit
            /\ result.new_commit = CommitId(n, ShortLen)
            /\ head = pre.head
            /\ OthersUnchanged(PreBranch)

\* a pull without conflicts onto a branch that has a commit, while another
\* branch exists
C13_Witness ==
    /\ Succeeded("pull")
    /\ pre.refs[PreBranch].commit # NoHash
    /\ objects[refs[PreBranch].commit].parent = pre.refs[PreBranch].commit
    /\ objects[refs[PreBranch].commit].tree = pre.objects[PulledHash].tree
    /\ DOMAIN pre.refs # {PreBranch}

\* the chain of parent links from h, newest first, in a store whose
\* parent links are those commit and pull wrote
RECURSIVE Ancestry(_)
Ancestry(h) ==
    IF h = NoHash \/ h \notin DOMAIN objects THEN <<>>
    ELSE <<h>> \o Ancestry(objects[h].parent)

\* the branch a log call reads: the current one when none is named
LoggedBranch ==
    IF result.args = PyNone \/ result.args = "" THEN PreBranch ELSE result.args

\* C14: for a branch whose tip heads a linear chain of n commits, log
\* returns exactly n entries, newest first, the first being the tip, each
\* entry's parent short hash being the short hash of the entry that follows
\* it, and absent for the last entry.
C14_LogListsChainNewestFirst ==
    Succeeded("log") =>
        LET c == result.commits
            n == Len(c)
        IN  /\ [i \in 1..n |-> c[i].full_hash] = Ancestry(pre.refs[LoggedBranch].commit)
            /\ \A i \in 1..n : c[i].hash = CommitId(c[i].full_hash, ShortLen)
            /\ \A i \in 1..(n - 1) :
                   /\ c[i].parent = c[i + 1].hash
                   /\ c[i].timestamp > c[i + 1].timestamp
            /\ n > 0 => /\ c[1].full_hash = pre.refs[LoggedBranch].commit
                        /\ c[n].parent = NoShortHash

\* the log of a chain of three commits
C14_Witness ==
    /\ Succeeded("log")
    /\ Len(result.commits) = 3
    /\ result.commits[1].parent = result.commits[2].hash
    /\ result.commits[3].parent = NoShortHash

\* no hash is listed twice
NoDuplicates(commits) ==
    \A i, j \in DOMAIN commits : commits[i].full_hash = commits[j].full_hash => i = j

\* C15: log terminates for every content of the object store, cyclic or
\* dangling parent links included; it lists each hash at most once, and
\* at most as many entries as there are stored objects.
C15_LogTerminates ==
    /\ [](walk.pc = "loop" =>
             /\ NoDuplicates(walk.commits)
             /\ {c.full_hash : c \in Range(walk.commits)} = walk.visited
             /\ walk.visited \subseteq DOMAIN objects)
    /\ [](Called("log") =>
             /\ NoDuplicates(result.commits)
             /\ Len(result.commits) <= Cardinality(DOMAIN objects))
    /\ (walk.pc = "loop" ~> Called("log"))

\* the log of a history whose parent links form a cycle of two or more
C15_Witness ==
    /\ Called("log")
    /\ result.success
    /\ Len(result.commits) >= 2
    /\ \A c \in Range(result.commits) : objects[c.full_hash].type = "commit"
    /\ objects[result.commits[Len(result.commits)].full_hash].parent
           = result.commits[1].full_hash

\* C15 as stated: log lists each hash at most once, and at most as many
\* entries as there are stored commits.
C15_LogBoundedByStoredCommits ==
    Called("log") =>
        /\ NoDuplicates(result.commits)
        /\ Len(result.commits) <= Cardinality(StoredOfType("commit"))

\* the entries diff is expected to list, given the tree entries of the tip
ExpectedChanges(entries) ==
    LET tracked == {e.path : e \in Range(entries)}
        stored(p) == objects[(CHOOSE e \in Range(entries) : e.path = p).blob_hash].content
    IN  {[file |-> p, status |-> "new"] :
            p \in {q \in Paths : work[q] # Absent /\ q \notin tracked}}
        \cup {[file |-> p, status |-> "modified"] :
            p \in {q \in tracked : work[q] # Absent /\ work[q] # WriteText(stored(q))}}
        \cup {[file |-> p, status |-> "deleted"] :
            p \in {q \in tracked : work[q] = Absent}}

\* C16: when the current branch has a tip, diff lists exactly: "new" for
\* every working file whose path is not in the tip's tree, "modified" for
\* every path in both whose content on disk differs from the stored blob
\* content, "deleted" for every tree path with no file on disk; when the
\* branch has no commit, diff succeeds with an empty list; diff changes
\* no state.
C16_DiffListsExactlyTheChanges ==
    (Called("diff") /\ pre.initialized) =>
        LET tip == pre.refs[PreBranch].commit
        IN  /\ result.success
            /\ Disk = pre
            /\ IF tip = NoHash
               THEN result.changed = <<>>
               ELSE /\ Range(result.changed) = ExpectedChanges(PreTreeEntries(tip))
                    /\ Len(result.changed)
                           = Cardinality(ExpectedChanges(PreTreeEntries(tip)))

\* the pattern names no regular file of the working directory the call saw
MatchesNoFile(pattern) ==
    \A p \in Paths : pre.work[p] = Absent \/ (pattern # p /\ pattern # "*.txt")

\* C17: stage(patterns) in which some pattern matches zero files fails
\* with "No files matched pattern" and leaves the staged set as it was
\* before the call, also when earlier patterns of the call matched files.
C17_StageFailsWhenAPatternMatchesNothing ==
    (Called("add") /\ pre.initialized
        /\ \E i \in DOMAIN result.args : MatchesNoFile(result.args[i])) =>
        /\ Failed("add", "No files matched pattern")
        /\ index = pre.index

\* the regular files the patterns of the last call name
FilesNamed(patterns) ==
    {p \in Paths : pre.work[p] # Absent
        /\ \E i \in DOMAIN patterns : patterns[i] = p \/ patterns[i] = "*.txt"}

\* C18: staging is idempotent: after a successful stage call the staged set
\* is the previous staged set plus the matched paths, it holds each path
\* exactly once, and staging paths that are all staged already leaves the
\* staged set unchanged.
C18_StagingIsIdempotent ==
    Succeeded("add") =>
        /\ Range(index) = Range(pre.index) \cup FilesNamed(result.args)
        /\ \A i, j \in DOMAIN index : index[i] = index[j] => i = j
        /\ (FilesNamed(result.args) \subseteq Range(pre.index)) => index = pre.index

\* a path that was staged already is staged again, by two patterns at once
C18_Witness ==
    /\ Succeeded("add")
    /\ Len(result.files) > Cardinality(Range(result.files))
    /\ Range(result.files) \cap Range(pre.index) # {}
    /\ Len(index) = 2

\* the staged path matches the pattern, with the matching of stage
PatternMatches(path, pattern) == pattern = path \/ pattern = "*.txt"

\* C19: reset with no patterns empties the staged set; reset with patterns
\* succeeds, removes from the staged set exactly the staged paths that
\* match at least one pattern and leaves every other staged path in
\* place, for every non-empty staged set.
C19_ResetUnstagesMatchingPaths ==
    (Called("reset") /\ pre.initialized /\ pre.index # <<>>) =>
        /\ result.success
        /\ index = IF result.args = <<>> THEN <<>>
                   ELSE SelectSeq(pre.index, LAMBDA f :
                            ~\E i \in DOMAIN result.args :
                                PatternMatches(f, result.args[i]))

\* C19, the part that holds: reset with no patterns empties a non-empty
\* staged set and returns what was staged.
C19_ResetAllEmptiesStagedSet ==
    (Called("reset") /\ pre.initialized /\ result.args = <<>>) =>
        /\ result.success
        /\ index = <<>>
        /\ result.unstaged = pre.index

\* C20: after a successful remove(patterns), every regular file of the
\* working directory matched by a pattern no longer exists, the staged set
\* is the previous staged set minus the deleted paths, and the staged
\* paths that were not deleted remain staged.
C20_RemoveDeletesAndUnstages ==
    Succeeded("rm") =>
        LET deleted == {p \in Paths : pre.work[p] # Absent /\ work[p] = Absent}
        IN  /\ \A p \in FilesNamed(result.args) : work[p] = Absent
            /\ deleted = FilesNamed(result.args)
            /\ Range(result.removed) = deleted
            /\ index = SelectSeq(pre.index, LAMBDA f : f \notin deleted)
            /\ \A p \in Paths \ deleted : work[p] = pre.work[p]

\* a wildcard removes two files, one staged path goes and one that has no
\* file any more stays
C20_Witness ==
    /\ Succeeded("rm")
    /\ result.args = <<"*.txt">>
    /\ Range(result.removed) \cap Range(pre.index) # {}
    /\ Len(pre.index) = 2
    /\ Len(index) = 1

\* C21: initialize on a directory that is not initialized leaves the
\* default branch record with an empty pointer and no password, HEAD naming
\* the default branch and an empty index; initialize on an initialized
\* repository returns success with the already-initialized signal and
\* leaves HEAD, every branch record, the index and the object store as
\* they were, whatever calls ran in between.
C21_InitializeIsIdempotent ==
    Called("initialize") =>
        /\ result.success
        /\ initialized
        /\ IF pre.initialized
           THEN /\ result.idempotent
                /\ head = pre.head
                /\ refs = pre.refs
                /\ index = pre.index
                /\ objects = pre.objects
           ELSE /\ ~result.idempotent
                /\ DOMAIN refs = {DEFAULT_BRANCH}
                /\ refs[DEFAULT_BRANCH].commit = NoHash
                /\ refs[DEFAULT_BRANCH].password_hash = NoPasswordHash
                /\ head = HeadRef(DEFAULT_BRANCH)
                /\ index = <<>>

\* initialize is called again on a repository with a commit, a second
\* branch that HEAD names, and a staged path
C21_Witness ==
    /\ Called("initialize")
    /\ result.idempotent
    /\ pre.objects # EmptyFun
    /\ pre.head # HeadRef(DEFAULT_BRANCH)
    /\ pre.index # <<>>
    /\ index = pre.index

\* C22: reading back the hash returned by writing an object content yields
\* that content exactly, and writing a content that was written before
\* returns the hash it returned then and leaves the object files as they
\* were.
C22_ObjectStoreRoundTrip ==
    Called("put") =>
        /\ read_object_file(result.hash, objects) = result.args
        /\ \A h \in DOMAIN pre.objects :
              read_object_file(h, pre.objects) = result.args
                  => result.hash = h /\ objects = pre.objects

\* a blob whose text holds a quote and a carriage return is written a
\* second time, after another object
C22_Witness ==
    /\ Called("put")
    /\ result.args = BlobContent(<<"a">>, <<"QUOTE", "CR">>)
    /\ result.hash = 1
    /\ DOMAIN pre.objects = {1, 2}
    /\ objects = pre.objects

\* the operations that answer with a result; initialize is the one that
\* makes a repository
CoreOps ==
    {"add", "commit", "branches", "create_branch", "switch", "pull",
     "pull_confirm", "checkout", "log", "show", "reset", "diff", "rm"}

\* C23: every core operation invoked on a directory that is not initialized
\* returns a failure result and changes no repository state and no working
\* file.
C23_UninitializedOperationsFail ==
    (result.op \in CoreOps /\ ~pre.initialized) =>
        /\ ~result.success
        /\ Disk = pre
        /\ ~initialized /\ head = NoFile /\ refs = EmptyFun /\ index = NoFile
        /\ objects = EmptyFun

\* pull_confirm, which has no test of its own for the repository, is
\* called where there is none, next to a working file
C23_Witness ==
    /\ Failed("pull_confirm", "Error confirming pull")
    /\ ~pre.initialized
    /\ pre.work["a.txt"] # Absent
    /\ work = pre.work

\* C24: commit on a repository whose staging index is empty fails with
\* "No files staged for commit" and leaves the current branch's pointer,
\* HEAD, the index and the object store unchanged.
C24_EmptyCommitIsRefused ==
    (Called("commit") /\ pre.initialized /\ pre.index = <<>>) =>
        /\ Failed("commit", "No files staged for commit")
        /\ refs = pre.refs
        /\ head = pre.head
        /\ index = pre.index
        /\ objects = pre.objects

\* commit is called a second time right after a commit emptied the index,
\* while the working file has changed
C24_Witness ==
    /\ Failed("commit", "No files staged for commit")
    /\ pre.refs[PreBranch].commit # NoHash
    /\ pre.refs[PreBranch].commit \in DOMAIN committed
    /\ \E p \in DOMAIN committed[pre.refs[PreBranch].commit] :
          /\ work[p] # Absent
          /\ work[p] # committed[pre.refs[PreBranch].commit][p]

\* C25: in every state reachable from initialize by add, commit,
\* create_branch, switch, checkout, pull, pull_confirm and reset, each
\* branch's commit pointer is either empty or the hash of a stored, readable
\* commit object whose tree is stored too.
C25_PointersNameStoredCommits ==
    \A b \in DOMAIN refs :
        LET h == refs[b].commit
        IN  h # NoHash =>
               /\ h \in DOMAIN objects
               /\ objects[h].type = "commit"
               /\ objects[h].tree \in DOMAIN objects
               /\ objects[objects[h].tree].type = "tree"

\* checkout has moved the current branch to a commit made on the other
\* branch, and both branches have a tip
C25_Witness ==
    /\ Succeeded("checkout")
    /\ DOMAIN refs = BranchNames
    /\ \A b \in BranchNames : refs[b].commit # NoHash
    /\ refs[PreBranch].commit # pre.refs[PreBranch].commit
    /\ pre.refs[PreBranch].commit # NoHash

\* C26: in every state reachable from initialize by the core operations,
\* HEAD is a symbolic reference "ref: refs/heads/<name>" whose <name> has a
\* branch record; it is never a commit hash and never names a missing
\* branch.
C26_HeadNamesAnExistingBranch ==
    initialized =>
        /\ head # NoFile
        /\ head[1] = RefPrefix
        /\ head[2] \in DOMAIN refs

\* C26, the part that holds: HEAD is always a symbolic reference, never a
\* commit hash.
C26_HeadIsSymbolic ==
    initialized => (head # NoFile /\ Len(head) = 2 /\ head[1] = RefPrefix)

\* C27: in every reachable state the staged set holds no path inside the
\* repository's metadata directory, whatever patterns were passed to add.
C27_NoMetadataPathIsStaged ==
    index # NoFile => \A i \in DOMAIN index : index[i] \in Paths

\* add was given a working file and the HEAD file, and staged the working
\* file alone
C27_Witness ==
    /\ Succeeded("add")
    /\ result.args = <<"a.txt", HeadPath>>
    /\ index = <<"a.txt">>
    /\ pre.index = <<>>

\* C28: the object store is append-only and immutable: in every reachable
\* state each stored object's key is the hash of its content, and no
\* operation (commit, checkout, pull, pull_confirm, switch, reset among
\* them) changes or deletes the content stored under an existing hash.
C28_ObjectStoreIsAppendOnly ==
    /\ \A h \in DOMAIN objects : compute_hash(sha1, objects[h]) = h
    /\ result.op # "none" =>
          \A h \in DOMAIN pre.objects :
              h \in DOMAIN objects /\ objects[h] = pre.objects[h]

\* a second commit stores the same file content again: blob and tree are
\* written a second time under their hashes, the commit object is new
C28_Witness ==
    /\ Succeeded("commit")
    /\ pre.objects # EmptyFun
    /\ objects[result.commit_hash].tree \in DOMAIN pre.objects
    /\ result.commit_hash \notin DOMAIN pre.objects

\* the entries of the tree of the commit that the last call made
NewTreeEntries == objects[objects[result.commit_hash].tree].entries

\* C29: the tree of the commit produced by commit has exactly one entry per
\* staged path whose file exists at commit time, in the order of the staged
\* set, each pointing at the blob written for that path, and no entry for
\* any other path, the paths of the parent commit's tree that were not
\* staged again included.
C29_TreeHoldsTheStagedFiles ==
    Succeeded("commit") =>
        LET present == SelectSeq(pre.index, LAMBDA p : pre.work[p] # Absent)
        IN  /\ [i \in DOMAIN NewTreeEntries |-> NewTreeEntries[i].path] = present
            /\ \A i \in DOMAIN NewTreeEntries :
                  LET blob == objects[NewTreeEntries[i].blob_hash]
                  IN  /\ blob.type = "blob"
                      /\ blob.path = present[i]
                      /\ blob.content = pre.work[present[i]]

\* two paths are staged, the file of one is gone at commit time, and the
\* parent commit's tree holds that path
C29_Witness ==
    /\ Succeeded("commit")
    /\ Len(pre.index) = 2
    /\ Len(NewTreeEntries) = 1
    /\ pre.refs[PreBranch].commit # NoHash
    /\ \E e \in Range(PreTreeEntries(pre.refs[PreBranch].commit)) :
          \A i \in DOMAIN NewTreeEntries : NewTreeEntries[i].path # e.path

\* the step is a commit that succeeds
CommitStep == result.op = "none" /\ result'.op = "commit" /\ result'.success

\* the entries of the tree of the commit that the step makes
NextTreeEntries == objects'[objects'[result'.commit_hash].tree].entries

\* C30: the blob that commit stores for a staged path holds the content the
\* file had when add staged it, also when the file is modified between add
\* and commit.
C30_BlobHoldsStagingTimeContent ==
    [][CommitStep =>
          \A i \in DOMAIN NextTreeEntries :
              objects'[NextTreeEntries[i].blob_hash].content
                  = ReadText(stagedAt[NextTreeEntries[i].path])]_vars

\* what holds instead: the blob holds the text of the file as commit read it
C30_BlobHoldsCommitTimeContent ==
    Succeeded("commit") =>
        \A i \in DOMAIN NewTreeEntries :
            objects[NewTreeEntries[i].blob_hash].content
                = ReadText(pre.work[NewTreeEntries[i].path])

\* no file is modified between add and commit
C30_NeverModifiedAfterStaging ==
    [][CommitStep =>
          \A i \in DOMAIN NextTreeEntries :
              stagedAt[NextTreeEntries[i].path] = work[NextTreeEntries[i].path]]_vars

\* the commit that a successful checkout or show reports
ResolvedCommit ==
    IF result.op = "show" THEN result.commit.hash ELSE result.message_hash.hash

\* the call is a checkout or a show of a commit_id of at least n characters
\* in an initialized repository
ResolvesRef(n) ==
    /\ result.op \in {"checkout", "show"}
    /\ pre.initialized
    /\ result.args.len >= n

\* the commit_id is a prefix of the hash of a commit stored with its tree
NamesStoredCommit ==
    /\ result.args.hash \in DOMAIN pre.objects
    /\ pre.objects[result.args.hash].type = "commit"
    /\ pre.objects[result.args.hash].tree \in DOMAIN pre.objects

\* a prefix of a stored commit's hash resolves to that commit, and
\* CommitNotFound is reported only when no stored object has the prefix
ResolvesPrefix ==
    /\ NamesStoredCommit => result.success /\ ResolvedCommit = result.args.hash
    /\ result.message = "Commit not found" /\ ~result.success
          => \A k \in DOMAIN pre.objects : ~StartsWith(k, result.args)

\* C31: checkout and show resolve every commit_ref of at least 2 characters
\* that is a prefix of a stored commit's hash to that commit, and report
\* CommitNotFound only when no stored object has that prefix.
C31_PrefixResolvesToCommit == ResolvesRef(ShardLen) => ResolvesPrefix

\* what holds instead: the same for a commit_ref of at least 8 characters
C31_LongPrefixResolvesToCommit == ResolvesRef(ShortLen) => ResolvesPrefix

\* a shortened commit_ref of 8 characters is resolved by show
C31_ShortRefResolved ==
    /\ ResolvesRef(ShortLen)
    /\ result.op = "show"
    /\ result.args.len = ShortLen
    /\ result.success

\* the paths of the tree of the commit that the checkout resolved
TargetTreePaths ==
    {e.path : e \in Range(PreTreeEntries(result.message_hash.hash))}

\* C32: the list of paths returned by a successful checkout equals the set of
\* paths of the target commit's tree, every path whose file checkout wrote,
\* whether or not a file existed at that path before the call.
C32_CheckoutReturnsTreePaths ==
    Succeeded("checkout") => Range(result.files_restored) = TargetTreePaths

\* what holds instead: the list holds the tree paths at which a file existed
\* before the call
C32_CheckoutReturnsReplacedPaths ==
    Succeeded("checkout") =>
        Range(result.files_restored)
            = {p \in TargetTreePaths : pre.work[p] # Absent}

\* checkout wrote a file at a path where none existed
C32_WroteMissingFile ==
    /\ Succeeded("checkout")
    /\ \E p \in TargetTreePaths : pre.work[p] = Absent /\ work[p] # Absent

Finished(self, op) ==
    /\ Locals(self).pc = "done"
    /\ procs[self].result.op = op
    /\ procs[self].result.success

\* what a finished add wrote to the index: the staged list it read and the
\* paths it added
WrittenBy(self) ==
    SortedPaths(Range(procs[self].staged) \cup Range(procs[self].result.files))

\* C34: with no locking, two add invocations on the same repository can
\* interleave (both read the index, then both write it) so that the final
\* staged set lacks a path that one invocation reported as staged.  After
\* two adds the index is what one of them wrote from its own read of the
\* index, whatever the other one wrote in between.
C34_IndexIsOneWritersView ==
    (\A self \in Procs : Finished(self, "add"))
        => \E self \in Procs : index = WrittenBy(self)

\* the lost update: both adds reported success, and a path that one of them
\* reported as staged is not in the staged set
C34_LostUpdate ==
    /\ \A self \in Procs : Finished(self, "add")
    /\ \E self \in Procs :
          \E p \in Range(procs[self].result.files) : p \notin Range(index)

\* the commit that the finished commit invocation self reported
Created(self) == procs[self].result.commit_hash

\* the tip of the current branch
Tip == get_current_commit(get_current_branch)

\* C35: with no locking, two commit invocations on the same branch can
\* interleave so that both read the same tip as parent and the later
\* pointer write overwrites the earlier one: a commit reported as created is
\* then not reachable by parent links from any branch tip.  After two
\* commits the branch pointer names one of the two created commits, and the
\* other one is either an ancestor of it or was built on the same parent.
C35_PointerIsOneWritersCommit ==
    (\A self \in Procs : Finished(self, "commit")) =>
        \E self \in Procs :
            /\ Tip = Created(self)
            /\ \A other \in Procs :
                  /\ Created(other) \in DOMAIN objects
                  /\ \/ Created(other) \in Range(Ancestry(Tip))
                     \/ objects[Created(other)].parent = objects[Tip].parent

\* the lost commit: both commits were reported as created on top of a tip
\* that existed, and one of them is reachable from no branch tip
C35_LostCommit ==
    /\ \A self \in Procs : Finished(self, "commit")
    /\ objects[Tip].parent # NoHash
    /\ \E self \in Procs :
          \A b \in DOMAIN refs : Created(self) \notin Range(Ancestry(refs[b].commit))

\* the source branches of two runs: one that exists and is protected, the
\* default one, and one that does not exist
SourceNames == BranchNames \cup {"ghost"}

C37_RemoveKeepsMetadata ==
    Called("rm") =>
        /\ pre.head # NoFile => head # NoFile
        /\ pre.index # NoFile => index # NoFile
        /\ DOMAIN pre.refs \subseteq DOMAIN refs
        /\ DOMAIN pre.objects \subseteq DOMAIN objects

\* what holds instead: remove keeps the metadata when no pattern names a
\* metadata file
C37_RemoveOfWorkingFilesKeepsMetadata ==
    (Called("rm") /\ Range(result.args) \cap MetaFiles = {})
        => /\ head = pre.head
           /\ refs = pre.refs
           /\ objects = pre.objects
           /\ pre.index # NoFile => index # NoFile

\* remove deleted the record of a branch and reported it as removed
C37_BranchRecordDeleted ==
    /\ Succeeded("rm")
    /\ "feature" \in DOMAIN pre.refs
    /\ "feature" \notin DOMAIN refs
    /\ FeatureRefPath \in Range(result.removed)
====
